---- MODULE Spec2Model ----
(***************************************************************************)
(* Model of the analytical core of the weather dashboard:                  *)
(*   WeatherDataProcessor.clean_weather_data / detect_extreme_events       *)
(*   CorrelationAnalyzer.analyze_weather_traffic_correlation /             *)
(*   analyze_extreme_weather_impact                                        *)
(* A DataFrame is a record [cols, rows]: cols is the set of column names,  *)
(* rows the sequence of rows in positional order, each row a function     *)
(* from cols to cell values.  Numeric cells are integers (degrees F,       *)
(* inches, mph, vehicles); a missing numeric cell is NaN.  A date cell is  *)
(* a record [kind, day]: kind "str" is an ISO string 'YYYY-MM-DD' of day   *)
(* number day, "ts" a pandas Timestamp, "bad" a string that does not       *)
(* parse, "none" a missing value in an object column, "nat" pandas NaT.    *)
(***************************************************************************)
EXTENDS Integers, Sequences, FiniteSets, TLC

VARIABLES
    weather_df,       \* the caller's weather DataFrame
    traffic_df,       \* the caller's traffic DataFrame
    cleaned_df,       \* value returned by the last clean_weather_data call
    events,           \* value returned by the last detect_extreme_events call
    correlations,     \* value returned by the last analyze_weather_traffic_correlation call
    impact_analysis,  \* value returned by the last analyze_extreme_weather_impact call
    origin,           \* where weather_df comes from: "raw" or "cleaned"
    last,             \* the last operation performed
    session_state,    \* st.session_state of the dashboard
    start_date,       \* the start date string last validated
    end_date,         \* the end date string last validated
    now,              \* datetime.now()
    validation        \* value returned by the last validate_date_range call

app_vars == <<session_state, start_date, end_date, now, validation>>

vars == <<weather_df, traffic_df, cleaned_df, events, correlations,
          impact_analysis, origin, last, session_state, start_date,
          end_date, now, validation>>

----------------------------------------------------------------------------
(* Cell values *)

\* numpy NaN: a value outside every data domain; every comparison with it is
\* False except !=
NaN == 0 - 1000000

IsNaN(v) == v = NaN

GT(a, b) == ~IsNaN(a) /\ ~IsNaN(b) /\ a > b
LT(a, b) == ~IsNaN(a) /\ ~IsNaN(b) /\ a < b
GE(a, b) == ~IsNaN(a) /\ ~IsNaN(b) /\ a >= b
LE(a, b) == ~IsNaN(a) /\ ~IsNaN(b) /\ a <= b
EQ(a, b) == ~IsNaN(a) /\ ~IsNaN(b) /\ a = b

StrDate(d) == [kind |-> "str", day |-> d]
Timestamp(d) == [kind |-> "ts", day |-> d]
BadDate == [kind |-> "bad", day |-> 0]
NoneDate == [kind |-> "none", day |-> 0]
NaT == [kind |-> "nat", day |-> 0]

----------------------------------------------------------------------------
(* DataFrames *)

DataFrame(cols, rows) == [cols |-> cols, rows |-> rows]

NoFrame == DataFrame({}, <<>>)

\* an empty dictionary
NoResult == [c \in {} |-> 0]
NoEvents == NoResult

\* DataFrame.empty: no rows or no columns
Empty(df) == Len(df.rows) = 0 \/ df.cols = {}

Column(df, c) == [i \in 1..Len(df.rows) |-> df.rows[i][c]]

SeqsUpTo(S, n) == UNION {[1..k -> S] : k \in 0..n}

RECURSIVE SumSeq(_)
SumSeq(s) == IF s = <<>> THEN 0 ELSE Head(s) + SumSeq(Tail(s))

Range(s) == {s[i] : i \in 1..Len(s)}

\* an exception that leaves a call instead of a value
Propagated == [exception |-> TRUE]

\* a handler that lets the exception through
except_nothing(value) == Propagated

\* except Exception as e: logger.error(...); return value
except_Exception(value) == value

----------------------------------------------------------------------------
(* pandas helpers used by clean_weather_data *)

\* pd.to_datetime of one cell; "raise" when the string does not parse
to_datetime(d) ==
    CASE d.kind = "str" -> Timestamp(d.day)
      [] d.kind = "ts" -> d
      [] d.kind = "none" -> NaT
      [] d.kind = "nat" -> NaT
      [] OTHER -> [kind |-> "raise", day |-> 0]

\* Timestamp.strftime('%Y-%m-%d'); a str has no strftime and NaT refuses it
strftime(d) ==
    IF d.kind = "ts" THEN StrDate(d.day) ELSE [kind |-> "raise", day |-> 0]

\* df['date'] = pd.to_datetime(df['date']) raises when the column is absent
\* or a cell does not parse
DateConversionRaises(df) ==
    \/ "date" \notin df.cols
    \/ \E i \in 1..Len(df.rows) : to_datetime(df.rows[i]["date"]).kind = "raise"

ConvertDates(df) ==
    DataFrame(df.cols,
        [i \in 1..Len(df.rows) |->
            [c \in df.cols |-> IF c = "date" THEN to_datetime(df.rows[i][c])
                               ELSE df.rows[i][c]]])

\* dropna(subset=['date'])
DropNaDates(df) ==
    LET keep(r) == r["date"].kind # "nat" /\ r["date"].kind # "none"
    IN DataFrame(df.cols, SelectSeq(df.rows, keep))

\* the non-missing values of a numeric column
Present(vals) == LET ok(v) == ~IsNaN(v) IN SelectSeq(vals, ok)

\* the k-th smallest (1-based) of a non-empty sequence of numbers
Kth(vals, k) ==
    CHOOSE v \in Range(vals) :
        /\ Cardinality({i \in 1..Len(vals) : vals[i] < v}) < k
        /\ Cardinality({i \in 1..Len(vals) : vals[i] <= v}) >= k

\* Series.quantile(pct/100) with linear interpolation, times 100;
\* NaN when the column holds no value
Quantile100(col, pct) ==
    LET vals == Present(col)
        n == Len(vals)
        pos == (n - 1) * pct
        lo == pos \div 100
        fr == pos % 100
    IN IF n = 0 THEN NaN
       ELSE IF fr = 0 THEN 100 * Kth(vals, lo + 1)
       ELSE 100 * Kth(vals, lo + 1)
            + fr * (Kth(vals, lo + 2) - Kth(vals, lo + 1))

LowPct == 1
HighPct == 99

\* the list with the precipitation column added
TempColsAndPrcp == <<"TMAX", "TMIN", "TAVG", "PRCP">>

TempCols == <<"TMAX", "TMIN", "TAVG">>

\* one pass of the loop body: drop the rows of col outside [q1, q3]
TrimOutliers(df, col) ==
    IF col \notin df.cols THEN df
    ELSE LET q1 == Quantile100(Column(df, col), LowPct)
             q3 == Quantile100(Column(df, col), HighPct)
             keep(r) == /\ ~IsNaN(r[col]) /\ ~IsNaN(q1) /\ ~IsNaN(q3)
                        /\ 100 * r[col] >= q1
                        /\ 100 * r[col] <= q3
         IN DataFrame(df.cols, SelectSeq(df.rows, keep))

RECURSIVE TrimAll(_, _)
TrimAll(df, cols) ==
    IF cols = <<>> THEN df
    ELSE TrimAll(TrimOutliers(df, Head(cols)), Tail(cols))

\* the filter that drops the negative values only and keeps a missing one
DropNegativeKeepMissing(df, col) ==
    IF col \notin df.cols THEN df
    ELSE LET keep(r) == ~LT(r[col], 0)
         IN DataFrame(df.cols, SelectSeq(df.rows, keep))

\* cleaned_df[cleaned_df[col] >= 0] when the column exists
DropNegative(df, col) ==
    IF col \notin df.cols THEN df
    ELSE LET keep(r) == GE(r[col], 0)
         IN DataFrame(df.cols, SelectSeq(df.rows, keep))

\* rows ordered by ascending date
SortedByDay(rows) ==
    \A i, j \in 1..Len(rows) : i < j => rows[i]["date"].day <= rows[j]["date"].day

\* sort_values('date').reset_index(drop=True): the default sort kind is
\* quicksort, which is not stable, so rows with equal dates may come out in
\* any order; every ordering that is ascending by date is a possible result
sort_values(df) ==
    {DataFrame(df.cols, [i \in 1..Len(df.rows) |-> df.rows[p[i]]]) :
        p \in {q \in Permutations(1..Len(df.rows)) :
                SortedByDay([i \in 1..Len(df.rows) |-> df.rows[q[i]]])}}

\* the frame before the final sort
FilterSteps(df) ==
    DropNegative(
        DropNegative(TrimAll(DropNaDates(ConvertDates(df)), TempCols), "PRCP"),
        "AWND")

\* a cleaning that sets aside the records whose date does not parse and
\* cleans the others
clean_what_converts(df) ==
    IF Empty(df) \/ "date" \notin df.cols THEN {df}
    ELSE LET ok(r) == to_datetime(r["date"]).kind # "raise"
         IN sort_values(FilterSteps(DataFrame(df.cols, SelectSeq(df.rows, ok))))

\* WeatherDataProcessor.clean_weather_data: the set of frames the call can
\* return.  An exception in the try block (the date column does not convert,
\* or there is no date column for dropna) returns the argument itself.
clean_weather_data(df) ==
    IF Empty(df) THEN {df}
    ELSE IF DateConversionRaises(df) THEN {except_Exception(df)}
    ELSE sort_values(FilterSteps(df))

\* the frame of the caller had the date column been converted in the
\* argument itself
argument_converted_in_place(df) ==
    IF Empty(df) \/ DateConversionRaises(df) THEN df ELSE ConvertDates(df)

\* the frame of the caller once clean_weather_data has returned: the call
\* works on cleaned_df = df.copy() and rebinds only that name
argument_after_clean(df) == df

----------------------------------------------------------------------------
(* WeatherDataProcessor.detect_extreme_events *)

\* self.extreme_thresholds
heatwave_temp == 90
cold_spell_temp == 32
heavy_rain == 2
snowstorm == 6
high_wind == 20
extreme_wind == 50

\* the min_consecutive arguments of the three run categories
HeatwaveMinDays == 3
ColdSpellMinDays == 3
DroughtMinDays == 7
DroughtLevel == 0

\* the mask with a missing value counted as satisfying the comparison
CompareMissingAsTrue(comparison, v, threshold) ==
    \/ IsNaN(v)
    \/ CASE comparison = ">" -> GT(v, threshold)
         [] comparison = "<" -> LT(v, threshold)
         [] comparison = "==" -> EQ(v, threshold)
         [] comparison = ">=" -> GE(v, threshold)
         [] comparison = "<=" -> LE(v, threshold)
         [] OTHER -> FALSE

\* one element of the boolean mask df[column] <comparison> threshold
Compare(comparison, v, threshold) ==
    CASE comparison = ">" -> GT(v, threshold)
      [] comparison = "<" -> LT(v, threshold)
      [] comparison = "==" -> EQ(v, threshold)
      [] comparison = ">=" -> GE(v, threshold)
      [] comparison = "<=" -> LE(v, threshold)
      [] OTHER -> FALSE

\* (mask != mask.shift()).cumsum() at position i: the number of positions up
\* to i where the mask differs from the previous one (the first always does)
GroupId(mask, i) ==
    Cardinality({j \in 1..i : j = 1 \/ mask[j] # mask[j - 1]})

\* reading day['date'].strftime('%Y-%m-%d') raises: no date column, or the
\* cell is not a Timestamp
DateRaises(df, r) ==
    "date" \notin df.cols \/ strftime(r["date"]).kind = "raise"

MaxOf(vals) == CHOOSE v \in Range(vals) : \A w \in Range(vals) : w <= v
MinOf(vals) == CHOOSE v \in Range(vals) : \A w \in Range(vals) : v <= w

\* Series.mean() as the exact fraction sum / count
Mean(vals) == [num |-> SumSeq(vals), den |-> Len(vals)]

\* the duration taken from the calendar instead of from the rows
run_event_by_calendar(group_data, column) ==
    LET vals == [i \in 1..Len(group_data) |-> group_data[i][column]]
    IN [start_date |-> strftime(group_data[1]["date"]),
        end_date |-> strftime(group_data[Len(group_data)]["date"]),
        duration |-> group_data[Len(group_data)]["date"].day
                     - group_data[1]["date"].day + 1,
        max_value |-> MaxOf(vals),
        min_value |-> MinOf(vals),
        avg_value |-> Mean(vals)]

\* the dictionary appended for one group of rows
run_event(group_data, column) ==
    LET vals == [i \in 1..Len(group_data) |-> group_data[i][column]]
    IN [start_date |-> strftime(group_data[1]["date"]),
        end_date |-> strftime(group_data[Len(group_data)]["date"]),
        duration |-> Len(group_data),
        max_value |-> MaxOf(vals),
        min_value |-> MinOf(vals),
        avg_value |-> Mean(vals)]

\* the loop over valid_groups from group g on; an exception while building
\* an event ends the loop with the events appended so far
RECURSIVE GroupEvents(_, _, _, _, _, _)
GroupEvents(df, column, groups, valid, g, min_consecutive) ==
    IF g > Len(df.rows) THEN <<>>
    ELSE IF g \notin valid
    THEN GroupEvents(df, column, groups, valid, g + 1, min_consecutive)
    ELSE LET idx == {i \in 1..Len(df.rows) : groups[i] = g}
             in_group(i) == i \in idx
             group_data ==
                [k \in 1..Cardinality(idx) |->
                    df.rows[SelectSeq([i \in 1..Len(df.rows) |-> i], in_group)[k]]]
         IN IF Len(group_data) >= min_consecutive
            THEN IF \/ DateRaises(df, group_data[1])
                    \/ DateRaises(df, group_data[Len(group_data)])
                 THEN <<>>
                 ELSE <<run_event(group_data, column)>>
                      \o GroupEvents(df, column, groups, valid, g + 1,
                                     min_consecutive)
            ELSE GroupEvents(df, column, groups, valid, g + 1, min_consecutive)

\* the groups whose count of True mask values exceeds min_consecutive
ValidGroupsStrict(mask, groups, min_consecutive) ==
    {g \in Range(groups) :
        Cardinality({i \in 1..Len(mask) : groups[i] = g /\ mask[i]})
            > min_consecutive}

\* the groups whose count of True mask values reaches min_consecutive
ValidGroups(mask, groups, min_consecutive) ==
    {g \in Range(groups) :
        Cardinality({i \in 1..Len(mask) : groups[i] = g /\ mask[i]})
            >= min_consecutive}

\* the events listed from the latest run to the earliest
detect_latest_first(df, column, threshold, min_consecutive, comparison) ==
    IF comparison \notin {">", "<", "==", ">=", "<="} \/ column \notin df.cols
    THEN <<>>
    ELSE LET mask == [i \in 1..Len(df.rows) |->
                        Compare(comparison, df.rows[i][column], threshold)]
             groups == [i \in 1..Len(df.rows) |-> GroupId(mask, i)]
             found == GroupEvents(df, column, groups,
                                  ValidGroups(mask, groups, min_consecutive), 1,
                                  min_consecutive)
         IN [k \in 1..Len(found) |-> found[Len(found) + 1 - k]]

\* WeatherDataProcessor._detect_consecutive_events
detect_consecutive_events(df, column, threshold, min_consecutive, comparison) ==
    IF comparison \notin {">", "<", "==", ">=", "<="} \/ column \notin df.cols
    THEN <<>>
    ELSE LET mask == [i \in 1..Len(df.rows) |->
                        Compare(comparison, df.rows[i][column], threshold)]
             groups == [i \in 1..Len(df.rows) |-> GroupId(mask, i)]
         IN GroupEvents(df, column, groups,
                        ValidGroups(mask, groups, min_consecutive), 1,
                        min_consecutive)

\* 'high' if day['AWND'] < extreme_wind else 'extreme'
WindSeverity(v) == IF LT(v, extreme_wind) THEN "high" ELSE "extreme"

Severity(category, v) ==
    CASE category = "heavy_rainfall" -> "heavy"
      [] category = "snowstorms" -> "storm"
      [] OTHER -> WindSeverity(v)

\* the loop over the rows at or above the threshold
PointEventsAtOrAbove(df, column, threshold, category) ==
    LET above(r) == GE(r[column], threshold)
        days == SelectSeq(df.rows, above)
        bad == {i \in 1..Len(days) : DateRaises(df, days[i])}
        stop == IF bad = {} THEN Len(days) + 1
                ELSE CHOOSE i \in bad : \A j \in bad : i <= j
    IN [evs |-> [i \in 1..(stop - 1) |->
                    [date |-> strftime(days[i]["date"]),
                     value |-> days[i][column],
                     severity |-> Severity(category, days[i][column])]],
        raised |-> bad # {}]

\* one of the three loops over the rows above a threshold: the events
\* appended, and whether a row raised (which ends detection)
PointEvents(df, column, threshold, category) ==
    LET above(r) == GT(r[column], threshold)
        days == SelectSeq(df.rows, above)
        bad == {i \in 1..Len(days) : DateRaises(df, days[i])}
        stop == IF bad = {} THEN Len(days) + 1
                ELSE CHOOSE i \in bad : \A j \in bad : i <= j
    IN [evs |-> [i \in 1..(stop - 1) |->
                    [date |-> strftime(days[i]["date"]),
                     value |-> days[i][column],    \* 'precipitation', 'snowfall' or 'wind_speed'

                     severity |-> Severity(category, days[i][column])]],
        raised |-> bad # {}]

\* a category that ends the detection when it is passed over
skipped_and_stopped(raised) == [evs |-> <<>>, raised |-> TRUE]

\* a category passed over: its column is absent, or an earlier loop raised
Skipped(raised) == [evs |-> <<>>, raised |-> raised]

\* a dictionary without any category
events_without_keys == NoEvents

\* the dictionary the call starts from and returns whenever it returns early
empty_events ==
    [heatwaves |-> <<>>, cold_spells |-> <<>>, heavy_rainfall |-> <<>>,
     snowstorms |-> <<>>, high_winds |-> <<>>, drought_periods |-> <<>>]

\* WeatherDataProcessor.detect_extreme_events
detect_extreme_events(df) ==
    LET heat == IF "TMAX" \in df.cols
                THEN detect_consecutive_events(df, "TMAX", heatwave_temp,
                                               HeatwaveMinDays, ">")
                ELSE <<>>
        cold == IF "TMIN" \in df.cols
                THEN detect_consecutive_events(df, "TMIN", cold_spell_temp,
                                               ColdSpellMinDays, "<")
                ELSE <<>>
        rain == IF "PRCP" \in df.cols
                THEN PointEvents(df, "PRCP", heavy_rain, "heavy_rainfall")
                ELSE Skipped(FALSE)
        snow == IF rain.raised THEN Skipped(TRUE)
                ELSE IF "SNOW" \in df.cols
                THEN PointEvents(df, "SNOW", snowstorm, "snowstorms")
                ELSE Skipped(FALSE)
        wind == IF snow.raised THEN Skipped(TRUE)
                ELSE IF "AWND" \in df.cols
                THEN PointEvents(df, "AWND", high_wind, "high_winds")
                ELSE Skipped(FALSE)
        drought == IF wind.raised \/ "PRCP" \notin df.cols THEN <<>>
                   ELSE detect_consecutive_events(df, "PRCP", DroughtLevel,
                                                  DroughtMinDays, "==")
    IN IF Empty(df)
       THEN empty_events
       ELSE IF wind.raised
       THEN except_Exception(
                [heatwaves |-> heat, cold_spells |-> cold,
                 heavy_rainfall |-> rain.evs, snowstorms |-> snow.evs,
                 high_winds |-> wind.evs, drought_periods |-> drought])
       ELSE [heatwaves |-> heat, cold_spells |-> cold,
             heavy_rainfall |-> rain.evs, snowstorms |-> snow.evs,
             high_winds |-> wind.evs, drought_periods |-> drought]

----------------------------------------------------------------------------
(* CorrelationAnalyzer *)

\* self.correlation_thresholds, in tenths
strong == 7
moderate == 5
weak == 3

\* weather_df['date'] = pd.to_datetime(weather_df['date']) followed by the
\* same for traffic_df: the two frames the caller holds once the statements
\* have run.  A statement that raises assigns nothing and ends the try
\* block; the assignments before it stay.
ConvertBoth(weather, traffic) ==
    IF DateConversionRaises(weather)
    THEN [raised |-> TRUE, weather_df |-> weather, traffic_df |-> traffic]
    ELSE IF DateConversionRaises(traffic)
    THEN [raised |-> TRUE, weather_df |-> ConvertDates(weather),
          traffic_df |-> traffic]
    ELSE [raised |-> FALSE, weather_df |-> ConvertDates(weather),
          traffic_df |-> ConvertDates(traffic)]

\* pd.merge(weather_df, traffic_df, on='date', how='inner'): every pair of a
\* weather row and a traffic row of the same date, in the order of the
\* weather rows (missing dates match each other)
RECURSIVE MergeRows(_, _, _)
MergeRows(wrows, trows, cols) ==
    IF wrows = <<>> THEN <<>>
    ELSE LET w == Head(wrows)
             same(t) == t["date"] = w["date"]
             hits == SelectSeq(trows, same)
         IN [k \in 1..Len(hits) |->
                [c \in cols |-> IF c \in DOMAIN w THEN w[c] ELSE hits[k][c]]]
            \o MergeRows(Tail(wrows), trows, cols)

\* the frames put side by side record by record, whatever the dates
merge_by_position(weather, traffic) ==
    DataFrame(weather.cols \cup traffic.cols,
        [i \in 1..(IF Len(weather.rows) < Len(traffic.rows)
                   THEN Len(weather.rows) ELSE Len(traffic.rows)) |->
            [c \in weather.cols \cup traffic.cols |->
                IF c \in weather.cols THEN weather.rows[i][c]
                ELSE traffic.rows[i][c]]])

merge(weather, traffic) ==
    DataFrame(weather.cols \cup traffic.cols,
              MergeRows(weather.rows, traffic.rows,
                        weather.cols \cup traffic.cols))

\* the positions where both series hold a value: ~(x.isna() | y.isna())
PairedRows(df, xcol, ycol) ==
    LET both(r) == ~IsNaN(r[xcol]) /\ ~IsNaN(r[ycol])
    IN SelectSeq(df.rows, both)

\* the sums behind Pearson's r over the paired values:
\* r = sxy / sqrt(sxx * syy)
Moments(rows, xcol, ycol) ==
    LET n == Len(rows)
        x == [i \in 1..n |-> rows[i][xcol]]
        y == [i \in 1..n |-> rows[i][ycol]]
        xy == [i \in 1..n |-> x[i] * y[i]]
        xx == [i \in 1..n |-> x[i] * x[i]]
        yy == [i \in 1..n |-> y[i] * y[i]]
    IN [n |-> n,
        sxy |-> n * SumSeq(xy) - SumSeq(x) * SumSeq(y),
        sxx |-> n * SumSeq(xx) - SumSeq(x) * SumSeq(x),
        syy |-> n * SumSeq(yy) - SumSeq(y) * SumSeq(y)]

\* without the check on the number of paired values: Series.corr gives NaN
\* below two values
calculate_correlation_unguarded(df, xcol, ycol) ==
    LET m == Moments(PairedRows(df, xcol, ycol), xcol, ycol)
    IN IF m.n < 2 \/ m.sxx = 0 \/ m.syy = 0
       THEN [kind |-> "nan", sxy |-> 0, sxx |-> 0, syy |-> 0]
       ELSE [kind |-> "r", sxy |-> m.sxy, sxx |-> m.sxx, syy |-> m.syy]

\* CorrelationAnalyzer._calculate_correlation: 0.0 below two paired values,
\* NaN when a series is constant, else r as [sxy, sxx, syy]
calculate_correlation(df, xcol, ycol) ==
    LET m == Moments(PairedRows(df, xcol, ycol), xcol, ycol)
    IN IF m.n < 2 THEN [kind |-> "r", sxy |-> 0, sxx |-> 1, syy |-> 1]
       ELSE IF m.sxx = 0 \/ m.syy = 0
       THEN [kind |-> "nan", sxy |-> 0, sxx |-> 0, syy |-> 0]
       ELSE [kind |-> "r", sxy |-> m.sxy, sxx |-> m.sxx, syy |-> m.syy]

\* r >= tenths / 10 without the absolute value
SignedAtLeast(r, tenths) ==
    /\ r.kind = "r"
    /\ r.sxy >= 0
    /\ 100 * r.sxy * r.sxy >= tenths * tenths * r.sxx * r.syy

\* abs(r) >= tenths / 10, False for NaN
AbsAtLeast(r, tenths) ==
    /\ r.kind = "r"
    /\ 100 * r.sxy * r.sxy >= tenths * tenths * r.sxx * r.syy

\* CorrelationAnalyzer._get_correlation_strength
get_correlation_strength(r) ==
    IF AbsAtLeast(r, strong) THEN "strong"
    ELSE IF AbsAtLeast(r, moderate) THEN "moderate"
    ELSE IF AbsAtLeast(r, weak) THEN "weak"
    ELSE "negligible"

\* CorrelationAnalyzer._calculate_p_value: 1.0 below two paired values, else
\* the two-tailed p-value of stats.pearsonr, which is a function of r and n
\* (NaN for a constant series)
calculate_p_value(df, xcol, ycol) ==
    LET m == Moments(PairedRows(df, xcol, ycol), xcol, ycol)
    IN IF m.n < 2 THEN [kind |-> "one", n |-> m.n]
       ELSE IF m.sxx = 0 \/ m.syy = 0 THEN [kind |-> "nan", n |-> m.n]
       ELSE [kind |-> "two_tailed", n |-> m.n,
             r |-> calculate_correlation(df, xcol, ycol)]

\* the enumerated pairs: result key, weather column, traffic column
CorrelationPairs ==
    {<<"temperature_traffic", "TMAX", "traffic_volume">>,
     <<"min_temperature_traffic", "TMIN", "traffic_volume">>,
     <<"precipitation_traffic", "PRCP", "traffic_volume">>,
     <<"wind_traffic", "AWND", "traffic_volume">>,
     <<"snow_traffic", "SNOW", "traffic_volume">>,
     <<"temperature_speed", "TMAX", "avg_speed">>,
     <<"precipitation_speed", "PRCP", "avg_speed">>}

\* the keys written into correlations: both columns are in the merged frame
CorrelationKeys(merged_df) ==
    {p[1] : p \in {q \in CorrelationPairs :
                    q[2] \in merged_df.cols /\ q[3] \in merged_df.cols}}

PairOf(key) == CHOOSE p \in CorrelationPairs : p[1] = key

\* the correlations dictionary built from the merged frame
Correlations(merged_df) ==
    [key \in CorrelationKeys(merged_df) |->
        LET p == PairOf(key)
            r == calculate_correlation(merged_df, p[2], p[3])
        IN [correlation |-> r,
            strength |-> get_correlation_strength(r),
            p_value |-> calculate_p_value(merged_df, p[2], p[3])]]

\* CorrelationAnalyzer.analyze_weather_traffic_correlation: the returned
\* dictionary and the caller's two frames after the call
analyze_weather_traffic_correlation(weather, traffic) ==
    IF Empty(weather) \/ Empty(traffic)
    THEN [ret |-> NoResult, weather_df |-> weather, traffic_df |-> traffic]
    ELSE LET c == ConvertBoth(weather, traffic)
             merged_df == merge(c.weather_df, c.traffic_df)
         IN [ret |-> IF c.raised THEN except_Exception(NoResult)
                     ELSE IF Empty(merged_df) THEN NoResult
                     ELSE Correlations(merged_df),
             weather_df |-> c.weather_df,
             traffic_df |-> c.traffic_df]

\* Series.mean() of a column over rows, skipping NaN; NaN when nothing is left
MeanOf(rows, col) ==
    LET ok(r) == ~IsNaN(r[col])
        vals == SelectSeq(rows, ok)
    IN [nan |-> vals = <<>>,
        num |-> SumSeq([i \in 1..Len(vals) |-> vals[i][col]]),
        den |-> Len(vals)]

\* the change with the sign reversed: (extreme - normal) / normal * 100
RelativeIncrease(normal, extreme) ==
    LET top == extreme.num * normal.den - normal.num * extreme.den
        bottom == normal.num * extreme.den
    IN IF normal.nan \/ extreme.nan THEN [kind |-> "nan", num |-> 0, den |-> 1]
       ELSE IF bottom = 0
       THEN IF top = 0 THEN [kind |-> "nan", num |-> 0, den |-> 1]
            ELSE IF top > 0 THEN [kind |-> "inf", num |-> 0, den |-> 1]
            ELSE [kind |-> "-inf", num |-> 0, den |-> 1]
       ELSE IF bottom > 0
       THEN [kind |-> "finite", num |-> 100 * top, den |-> bottom]
       ELSE [kind |-> "finite", num |-> 0 - 100 * top, den |-> 0 - bottom]

\* (normal - extreme) / normal * 100 in float arithmetic: a fraction
\* num / den with den > 0, or what IEEE division by zero gives
RelativeChange(normal, extreme) ==
    LET top == normal.num * extreme.den - extreme.num * normal.den
        bottom == normal.num * extreme.den
    IN IF normal.nan \/ extreme.nan THEN [kind |-> "nan", num |-> 0, den |-> 1]
       ELSE IF bottom = 0
       THEN IF top = 0 THEN [kind |-> "nan", num |-> 0, den |-> 1]
            ELSE IF top > 0 THEN [kind |-> "inf", num |-> 0, den |-> 1]
            ELSE [kind |-> "-inf", num |-> 0, den |-> 1]
       ELSE IF bottom > 0
       THEN [kind |-> "finite", num |-> 100 * top, den |-> bottom]
       ELSE [kind |-> "finite", num |-> 0 - 100 * top, den |-> 0 - bottom]

\* the four conditions: result key, weather column, threshold
heatwave_above == 90
heavy_rain_above == 2
snowstorm_above == 6
high_wind_above == 20

ImpactConditions ==
    {<<"heatwave_impact", "TMAX", heatwave_above>>,
     <<"heavy_rain_impact", "PRCP", heavy_rain_above>>,
     <<"snowstorm_impact", "SNOW", snowstorm_above>>,
     <<"high_wind_impact", "AWND", high_wind_above>>}

ConditionOf(key) == CHOOSE c \in ImpactConditions : c[1] = key

\* merged_df[merged_df[col] > threshold]
ExtremeDays(merged_df, col, threshold) ==
    LET above(r) == GT(r[col], threshold) IN SelectSeq(merged_df.rows, above)

\* the rows where the condition is false, a missing value included
NormalDaysAsComplement(merged_df, col, threshold) ==
    LET rest(r) == ~GT(r[col], threshold) IN SelectSeq(merged_df.rows, rest)

\* merged_df[merged_df[col] <= threshold]
NormalDays(merged_df, col, threshold) ==
    LET within(r) == LE(r[col], threshold) IN SelectSeq(merged_df.rows, within)

\* the guard without the check on the normal days
ImpactEmittedOnExtreme(merged_df, col, threshold) ==
    /\ col \in merged_df.cols
    /\ "traffic_volume" \in merged_df.cols
    /\ Len(ExtremeDays(merged_df, col, threshold)) > 0

\* the guard of one condition: both columns merged, both subsets non-empty
ImpactEmitted(merged_df, col, threshold) ==
    /\ col \in merged_df.cols
    /\ "traffic_volume" \in merged_df.cols
    /\ Len(ExtremeDays(merged_df, col, threshold)) > 0
    /\ Len(NormalDays(merged_df, col, threshold)) > 0

\* the dictionary stored for one condition; avg_traffic_extreme stands for
\* 'avg_traffic_heatwave', 'avg_traffic_heavy_rain', ..., extreme_days for
\* 'heatwave_days', 'heavy_rain_days', ...
ImpactEntry(merged_df, col, threshold) ==
    LET extreme == ExtremeDays(merged_df, col, threshold)
        normal == NormalDays(merged_df, col, threshold)
    IN [avg_traffic_extreme |-> MeanOf(extreme, "traffic_volume"),
        avg_traffic_normal |-> MeanOf(normal, "traffic_volume"),
        traffic_reduction |->
            RelativeChange(MeanOf(normal, "traffic_volume"),
                           MeanOf(extreme, "traffic_volume")),
        extreme_days |-> Len(extreme)]

Impacts(merged_df) ==
    [key \in {c[1] : c \in {d \in ImpactConditions :
                              ImpactEmitted(merged_df, d[2], d[3])}} |->
        ImpactEntry(merged_df, ConditionOf(key)[2], ConditionOf(key)[3])]

\* CorrelationAnalyzer.analyze_extreme_weather_impact: the returned
\* dictionary and the caller's two frames after the call
analyze_extreme_weather_impact(weather, traffic) ==
    IF Empty(weather) \/ Empty(traffic)
    THEN [ret |-> NoResult, weather_df |-> weather, traffic_df |-> traffic]
    ELSE LET c == ConvertBoth(weather, traffic)
             merged_df == merge(c.weather_df, c.traffic_df)
         IN [ret |-> IF c.raised THEN except_Exception(NoResult)
                     ELSE IF Empty(merged_df) THEN NoResult
                     ELSE Impacts(merged_df),
             weather_df |-> c.weather_df,
             traffic_df |-> c.traffic_df]

----------------------------------------------------------------------------
(* The dashboard: validate_date_range of src/utils/helpers.py and load_data
   of src/app.py *)

None == [none |-> TRUE]

\* a datetime: its day and the second of that day
DateTime(day, second) == [day |-> day, second |-> second]

\* datetime.strptime(date_string, '%Y-%m-%d'): midnight of the day, a
\* ValueError for a string that is no date, a TypeError for no string
strptime(date_string) ==
    CASE date_string.kind = "str" ->
            [kind |-> "datetime", value |-> DateTime(date_string.day, 0)]
      [] date_string.kind = "bad" -> [kind |-> "ValueError"]
      [] OTHER -> [kind |-> "TypeError"]

\* a > b on datetimes
After(a, b) == a.day > b.day \/ (a.day = b.day /\ a.second > b.second)

MaxSpanDays == 1825

\* a span check that refuses the limit itself
SpanReaches(start, end) == end.day - start.day >= MaxSpanDays

\* (end - start).days > 1825
SpanExceeds(start, end) == end.day - start.day > MaxSpanDays

Verdict(is_valid, error_msg) == [is_valid |-> is_valid, error_msg |-> error_msg]

\* validate_date_range; its handler catches ValueError only
validate_date_range(start_string, end_string, current) ==
    LET start == strptime(start_string)
        end == strptime(end_string)
    IN IF start.kind = "TypeError" THEN Propagated
       ELSE IF start.kind = "ValueError"
       THEN Verdict(FALSE, "Invalid date format. Use YYYY-MM-DD")
       ELSE IF end.kind = "TypeError" THEN Propagated
       ELSE IF end.kind = "ValueError"
       THEN Verdict(FALSE, "Invalid date format. Use YYYY-MM-DD")
       ELSE IF After(start.value, end.value)
       THEN Verdict(FALSE, "Start date must be before end date")
       ELSE IF After(end.value, current)
       THEN Verdict(FALSE, "End date cannot be in the future")
       ELSE IF SpanExceeds(start.value, end.value)
       THEN Verdict(FALSE, "Date range cannot exceed 5 years")
       ELSE Verdict(TRUE, "")

\* the session of a fresh browser tab (app.py lines 66-72)
NewSession ==
    [weather_data |-> None, traffic_data |-> None, current_weather |-> None]

\* the day of datetime.now()
Today == 2000

\* the days of the sample series, cut to two records
SampleDays == <<Today - MaxSpanDays, Today - 1>>

\* load_sample_data: it always returns its two frames
load_sample_data ==
    [weather |->
        DataFrame({"date", "TMAX"},
            [i \in 1..Len(SampleDays) |->
                [c \in {"date", "TMAX"} |->
                    IF c = "date" THEN Timestamp(SampleDays[i]) ELSE 70]]),
     traffic |->
        DataFrame({"date", "traffic_volume"},
            [i \in 1..Len(SampleDays) |->
                [c \in {"date", "traffic_volume"} |->
                    IF c = "date" THEN Timestamp(SampleDays[i]) ELSE 100000]])]

\* df[(df['date'] >= start) & (df['date'] <= end)]
Between(df, first_day, last_day) ==
    LET inside(r) == first_day <= r["date"].day /\ r["date"].day <= last_day
    IN DataFrame(df.cols, SelectSeq(df.rows, inside))

\* get_city_coordinates: None for a city that is not in the table
get_city_coordinates(city) ==
    IF city = "New York" THEN [lat |-> 40, lon |-> 0 - 74] ELSE None

\* WeatherAPIFetcher.get_current_weather: None when the request fails
get_current_weather(city, api) ==
    IF api.current = "fails" THEN except_Exception(None)
    ELSE [source |-> "Weather.gov", city |-> city]

\* WeatherAPIFetcher.get_historical_data: an empty frame when no station is
\* found or the request fails
get_historical_data(first_day, api) ==
    IF api.historical = "fails" THEN except_Exception(NoFrame)
    ELSE DataFrame({"date", "TMAX"},
            <<[c \in {"date", "TMAX"} |->
                IF c = "date" THEN Timestamp(first_day) ELSE 95]>>)

\* a traffic fetch whose failure reaches the caller
get_traffic_data_unguarded(city, first_day, last_day, api) ==
    IF api.traffic = "fails" THEN Propagated
    ELSE Between(load_sample_data.traffic, first_day, last_day)

\* TrafficAPIFetcher.get_traffic_data: the fetcher's own series cut to the
\* date range, an empty frame when anything fails
get_traffic_data(city, first_day, last_day, api) ==
    IF api.traffic = "fails" THEN except_Exception(NoFrame)
    ELSE Between(load_sample_data.traffic, first_day, last_day)

\* the outcomes of the requests of one load, and of comparing the date
\* column with a datetime.date, which raises TypeError in pandas 2 and
\* compares in earlier versions
ApiOutcomes ==
    [current : {"answers", "fails"}, historical : {"answers", "fails"},
     traffic : {"answers", "fails"}, comparison : {"compares", "raises"}]

\* the try block of load_data from the sample branch on
load_sample_branch(session, first_day, last_day, api) ==
    LET sample_data == load_sample_data
        loaded == [session EXCEPT !.weather_data = sample_data.weather,
                                  !.traffic_data = sample_data.traffic]
    IN IF api.comparison = "raises" THEN except_Exception(loaded)
       ELSE [loaded EXCEPT
                !.weather_data = Between(sample_data.weather, first_day, last_day),
                !.traffic_data = Between(sample_data.traffic, first_day, last_day)]

\* the try block of load_data from the real-time branch on
load_realtime_branch(session, city, first_day, last_day, api) ==
    LET with_current ==
            [session EXCEPT !.current_weather = get_current_weather(city, api)]
        coords == get_city_coordinates(city)
        with_weather ==
            [with_current EXCEPT !.weather_data =
                IF coords # None THEN get_historical_data(first_day, api)
                ELSE load_sample_data.weather]
        traffic_data == get_traffic_data(city, first_day, last_day, api)
    IN IF traffic_data = Propagated THEN except_Exception(with_weather)
       ELSE [with_weather EXCEPT !.traffic_data = traffic_data]

\* load_data: the session it leaves and the verdict on the date range
load_data(session, data_source, city, first_day, last_day, current, api) ==
    LET verdict == validate_date_range(StrDate(first_day), StrDate(last_day),
                                       current)
    IN [validation |-> verdict,
        session_state |->
            IF verdict = Propagated THEN except_Exception(session)
            ELSE IF ~verdict.is_valid THEN session
            ELSE IF data_source = "Sample Data"
            THEN load_sample_branch(session, first_day, last_day, api)
            ELSE load_realtime_branch(session, city, first_day, last_day, api)]

\* the dashboard has not been used
AppIdle ==
    /\ session_state = NewSession
    /\ start_date = NoneDate
    /\ end_date = NoneDate
    /\ now = DateTime(Today, 0)
    /\ validation = None

\* the days a date of the sidebar or of a caller can name
DayChoices ==
    {Today - MaxSpanDays - 1, Today - MaxSpanDays, Today - 1, Today, Today + 1}

\* the date arguments of validate_date_range: well-formed strings, a
\* malformed string, and no string at all
DateStrings == {StrDate(d) : d \in DayChoices} \cup {BadDate, NoneDate}

\* midnight and noon of today
NowChoices == {DateTime(Today, 0), DateTime(Today, 43200)}

----------------------------------------------------------------------------
(* Inputs of the cleaning specification *)

MaxTrimLen == 4
MaxCleanLen == 2
MaxTwoTempLen == 3

\* rows with one numeric column and parseable string dates: every value on
\* day 1, and the value late on day 2 as well
TrimRows(col, values, late) ==
    {[c \in {"date", col} |-> IF c = "date" THEN StrDate(1) ELSE t] : t \in values}
    \cup {[c \in {"date", col} |-> IF c = "date" THEN StrDate(2) ELSE late]}

\* rows with malformed and missing dates and negative readings
SignRows ==
    {[c \in {"date", "PRCP", "AWND"} |->
        CASE c = "date" -> d [] c = "PRCP" -> p [] OTHER -> w] :
        d \in {StrDate(1), StrDate(2), BadDate, NoneDate},
        p \in {0 - 1, 0}, w \in {0 - 1, 5}}

NoDateRows == {[c \in {"TMAX"} |-> t] : t \in {70, 95}}

\* rows with two temperature columns
TwoTempRows ==
    {[c \in {"date", "TMAX", "TMIN"} |->
        CASE c = "date" -> StrDate(1) [] c = "TMAX" -> hi [] OTHER -> lo] :
        hi \in {70, 95}, lo \in {40, 50}}

\* rows with missing precipitation and wind readings
MissingRows ==
    {[c \in {"date", "PRCP", "AWND"} |->
        CASE c = "date" -> d [] c = "PRCP" -> p [] OTHER -> w] :
        d \in {StrDate(1), StrDate(2)}, p \in {0, NaN}, w \in {5, NaN}}

\* the frames handed to clean_weather_data: series of up to n records with
\* one temperature column or with precipitation, series of up to t records
\* with two temperature columns, and series of up to m records with
\* malformed or missing dates, negative or missing readings, or no date
\* column
CleanInputs(n, m, t) ==
    {DataFrame({"date", "TMAX"}, rs) :
        rs \in SeqsUpTo(TrimRows("TMAX", {70, 80, 95, NaN}, 70), n)}
    \cup {DataFrame({"date", "PRCP"}, rs) :
        rs \in SeqsUpTo(TrimRows("PRCP", {0, 1, 3}, 0), n)}
    \cup {DataFrame({"date", "TMAX", "TMIN"}, rs) : rs \in SeqsUpTo(TwoTempRows, t)}
    \cup {DataFrame({"date", "PRCP", "AWND"}, rs) : rs \in SeqsUpTo(SignRows, m)}
    \cup {DataFrame({"date", "PRCP", "AWND"}, rs) : rs \in SeqsUpTo(MissingRows, m)}
    \cup {DataFrame({"TMAX"}, rs) : rs \in SeqsUpTo(NoDateRows, m)}

----------------------------------------------------------------------------
(* Inputs of the detection specification *)

MaxDroughtLen == 8
MaxRunLen == 6
MaxPointLen == 2
MaxStride == 2
MaxTwoRunLen == 7

\* a frame whose i-th record is dated day i * stride, with the numeric cells
\* of cells[i]; kind "ts" after to_datetime, "str" as delivered
DatedFrame(kind, stride, cells) ==
    DataFrame({"date"} \cup UNION {DOMAIN cells[i] : i \in 1..Len(cells)},
        [i \in 1..Len(cells) |->
            [c \in {"date"} \cup DOMAIN cells[i] |->
                IF c = "date" THEN [kind |-> kind, day |-> i * stride]
                ELSE cells[i][c]]])

OneColumn(col, values) == {[c \in {col} |-> v] : v \in values}

PointCells ==
    {[c \in {"PRCP", "AWND", "SNOW"} |->
        CASE c = "PRCP" -> p [] c = "AWND" -> w [] OTHER -> sn] :
        p \in {2, 3}, w \in {20, 21, 50, 51}, sn \in {6, 7}}

RawCells ==
    {[c \in {"TMAX", "PRCP"} |-> IF c = "TMAX" THEN t ELSE p] :
        t \in {91}, p \in {0, 3}}

\* the frames handed to detect_extreme_events: precipitation series of up
\* to d records, temperature series of up to n records (dated every day, or
\* every k-th day), two-valued temperature series of up to t records, series
\* of up to p records with the point-event columns or with the wind speed
\* only, series with string dates, and series without a date column
DetectInputs(d, n, p, stride, t) ==
    {DatedFrame("ts", 1, cs) : cs \in SeqsUpTo(OneColumn("PRCP", {0, 3}), d)}
    \cup {DatedFrame("ts", 1, cs) :
            cs \in SeqsUpTo(OneColumn("TMAX", {90, 91, 95, NaN}), n)}
    \cup {DatedFrame("ts", k, cs) : k \in 2..stride,
            cs \in SeqsUpTo(OneColumn("TMAX", {90, 95}), n)}
    \cup {DatedFrame("ts", 1, cs) :
            cs \in SeqsUpTo(OneColumn("TMAX", {90, 95}), t)}
    \cup {DatedFrame("ts", 1, cs) :
            cs \in SeqsUpTo(OneColumn("TMIN", {20, 31, 32}), n)}
    \cup {DatedFrame("ts", 1, cs) : cs \in SeqsUpTo(PointCells, p)}
    \cup {DatedFrame("ts", 1, cs) :
            cs \in SeqsUpTo(OneColumn("AWND", {20, 21, 50, 51, NaN}), p)}
    \cup {DatedFrame("str", 1, cs) : cs \in SeqsUpTo(RawCells, n)}
    \cup {DataFrame({"TMAX"}, cs) :
            cs \in SeqsUpTo(OneColumn("TMAX", {91, 95}), n)}

----------------------------------------------------------------------------
(* The aggregates of a run event over float64 readings.  A reading is held
   as an exact count of units of 2^-48, in two digits of base 2^28: every
   float64 from 16 up to 1024 is a whole number of units, and so is 0. *)

Base == 268435456

Float64(hi, lo) == [hi |-> hi, lo |-> lo]

Less(a, b) == a.hi < b.hi \/ (a.hi = b.hi /\ a.lo < b.lo)

\* a + k units, not rounded
PlusUnits(a, k) ==
    Float64(a.hi + ((a.lo + k) \div Base), (a.lo + k) % Base)

\* the distance in units between neighbouring float64 values at magnitude a:
\* 1 below 32, 2 below 64, 4 below 128 and so on
Spacing(a) ==
    CASE a.hi < 33554432 -> 1
      [] a.hi < 67108864 -> 2
      [] a.hi < 134217728 -> 4
      [] a.hi < 268435456 -> 8
      [] a.hi < 536870912 -> 16
      [] OTHER -> 32

\* the float64 nearest to s / n, ties to the even neighbour: IEEE 754
\* division of the float64 s by the count n
DivRound(s, n) ==
    LET qh == s.hi \div n
        t == (s.hi % n) * Base + s.lo
        ql == t \div n
        r == t % n
        q == Spacing(Float64(qh, ql))
        low == ql % q
        twice == 2 * (n * low + r)
        down == Float64(qh, ql - low)
        up == PlusUnits(down, q)
    IN IF twice < n * q THEN down
       ELSE IF twice > n * q THEN up
       ELSE IF ((ql - low) \div q) % 2 = 0 THEN down ELSE up

\* IEEE 754 addition: the exact sum rounded to the nearest float64
FloatAdd(a, b) ==
    DivRound(Float64(a.hi + b.hi + ((a.lo + b.lo) \div Base),
                     (a.lo + b.lo) % Base), 1)

\* the values added one after the other, starting from 0.0
RECURSIVE SumFrom(_, _)
SumFrom(acc, vals) ==
    IF vals = <<>> THEN acc
    ELSE SumFrom(FloatAdd(acc, Head(vals)), Tail(vals))

\* Series.mean() of fewer than nine float64 values is sum / count.  The sum
\* is taken from left to right when pandas runs on bottleneck, and as the
\* first value plus the sum of the others when it runs on numpy's
\* add.reduce: both results are possible
Float64Means(vals) ==
    {DivRound(sum, Len(vals)) :
        sum \in {SumFrom(Float64(0, 0), vals),
                 FloatAdd(Head(vals), SumFrom(Float64(0, 0), Tail(vals)))}}

Float64Max(vals) == CHOOSE v \in Range(vals) : \A w \in Range(vals) : ~Less(v, w)
Float64Min(vals) == CHOOSE v \in Range(vals) : \A w \in Range(vals) : ~Less(w, v)

\* the aggregates taken over the group without its last row
run_event_without_last(group_data, column) ==
    LET vals == [i \in 1..(Len(group_data) - 1) |-> group_data[i][column]]
    IN {[start_date |-> strftime(group_data[1]["date"]),
         end_date |-> strftime(group_data[Len(group_data)]["date"]),
         duration |-> Len(group_data),
         max_value |-> Float64Max(vals),
         min_value |-> Float64Min(vals),
         avg_value |-> avg] : avg \in Float64Means(vals)}

\* the dictionaries that can be appended for one group of rows with float64
\* readings
run_event_float64(group_data, column) ==
    LET vals == [i \in 1..Len(group_data) |-> group_data[i][column]]
    IN {[start_date |-> strftime(group_data[1]["date"]),
         end_date |-> strftime(group_data[Len(group_data)]["date"]),
         duration |-> Len(group_data),
         max_value |-> Float64Max(vals),
         min_value |-> Float64Min(vals),
         avg_value |-> avg] : avg \in Float64Means(vals)}

----------------------------------------------------------------------------
(* WeatherAPIFetcher: src/data_fetchers/weather_api.py *)

\* weather_data[weather_data[column] > threshold] and its < counterpart
RowsAbove(weather_data, column, threshold) ==
    LET above(r) == GT(r[column], threshold)
    IN SelectSeq(weather_data.rows, above)

RowsBelow(weather_data, column, threshold) ==
    LET below(r) == LT(r[column], threshold)
    IN SelectSeq(weather_data.rows, below)

\* the one dictionary appended when at least three rows were selected
FetcherHeatwaves(weather_data) ==
    LET high_temp_days == RowsAbove(weather_data, "TMAX", 90)
        temps == [i \in 1..Len(high_temp_days) |-> high_temp_days[i]["TMAX"]]
    IN IF "TMAX" \in weather_data.cols /\ Len(high_temp_days) >= 3
       THEN <<[start_date |-> high_temp_days[1]["date"],
               end_date |-> high_temp_days[Len(high_temp_days)]["date"],
               max_temp |-> MaxOf(temps),
               duration |-> Len(high_temp_days)]>>
       ELSE <<>>

FetcherColdSpells(weather_data) ==
    LET low_temp_days == RowsBelow(weather_data, "TMIN", 32)
        temps == [i \in 1..Len(low_temp_days) |-> low_temp_days[i]["TMIN"]]
    IN IF "TMIN" \in weather_data.cols /\ Len(low_temp_days) >= 3
       THEN <<[start_date |-> low_temp_days[1]["date"],
               end_date |-> low_temp_days[Len(low_temp_days)]["date"],
               min_temp |-> MinOf(temps),
               duration |-> Len(low_temp_days)]>>
       ELSE <<>>

\* one dictionary per selected row, with the date cell as it is
FetcherDays(weather_data, column, threshold) ==
    IF column \notin weather_data.cols THEN <<>>
    ELSE LET days == RowsAbove(weather_data, column, threshold)
         IN [i \in 1..Len(days) |->
                [date |-> days[i]["date"], value |-> days[i][column]]]

\* some selected row is asked for its date in a frame without that column
FetcherDateMissing(weather_data) ==
    /\ "date" \notin weather_data.cols
    /\ \/ "TMAX" \in weather_data.cols
            /\ Len(RowsAbove(weather_data, "TMAX", 90)) >= 3
       \/ "TMIN" \in weather_data.cols
            /\ Len(RowsBelow(weather_data, "TMIN", 32)) >= 3
       \/ "PRCP" \in weather_data.cols
            /\ Len(RowsAbove(weather_data, "PRCP", 2)) >= 1
       \/ "SNOW" \in weather_data.cols
            /\ Len(RowsAbove(weather_data, "SNOW", 6)) >= 1
       \/ "AWND" \in weather_data.cols
            /\ Len(RowsAbove(weather_data, "AWND", 20)) >= 1

\* WeatherAPIFetcher.detect_extreme_events; it has no handler, a KeyError
\* reaches the caller
WeatherAPIFetcher_detect_extreme_events(weather_data) ==
    IF Empty(weather_data)
    THEN [heatwaves |-> <<>>, cold_spells |-> <<>>, heavy_rainfall |-> <<>>,
          snowstorms |-> <<>>, high_winds |-> <<>>]
    ELSE IF FetcherDateMissing(weather_data) THEN Propagated
    ELSE [heatwaves |-> FetcherHeatwaves(weather_data),
          cold_spells |-> FetcherColdSpells(weather_data),
          heavy_rainfall |-> FetcherDays(weather_data, "PRCP", 2),
          snowstorms |-> FetcherDays(weather_data, "SNOW", 6),
          high_winds |-> FetcherDays(weather_data, "AWND", 20)]

----------------------------------------------------------------------------
(* Inputs of the run event specification *)

MaxGroupLen == 5

\* the float64 nearest to 90.1, 90.2, 20.1 and 31.9, and the exact 95.0,
\* 90.0, 32.0 and 0.0
Temp90_1 == Float64(94476697, 161061272)
Temp90_2 == Float64(94581555, 53687092)
Temp95 == Float64(99614720, 0)
Temp20_1 == Float64(21076377, 161061274)
Temp31_9 == Float64(33449574, 107374182)
Temp90 == Float64(94371840, 0)
Temp32 == Float64(33554432, 0)
Zero == Float64(0, 0)

\* the groups of rows an event is built from: runs of three to n hot or
\* cold records and runs of seven to d dry records
RunInputs(n, d) ==
    {DatedFrame("ts", 1, cs) :
        cs \in {c \in SeqsUpTo(OneColumn("TMAX", {Temp90_1, Temp90_2, Temp95}), n) :
                    Len(c) >= HeatwaveMinDays}}
    \cup {DatedFrame("ts", 1, cs) :
        cs \in {c \in SeqsUpTo(OneColumn("TMIN", {Temp20_1, Temp31_9}), n) :
                    Len(c) >= ColdSpellMinDays}}
    \cup {DatedFrame("ts", 1, [i \in 1..k |-> [c \in {"PRCP"} |-> Zero]]) :
        k \in DroughtMinDays..d}

----------------------------------------------------------------------------
(* Inputs of the correlation and impact specifications *)

MaxJoinLen == 3

TemperatureCells == OneColumn("TMAX", {70, 95, NaN})

\* two kinds of day with every weather column
FullWeatherCells ==
    {[c \in {"TMAX", "TMIN", "PRCP", "AWND", "SNOW"} |->
        CASE c = "TMAX" -> 95 [] c = "TMIN" -> 60 [] c = "PRCP" -> 0
          [] c = "AWND" -> 25 [] OTHER -> 0],
     [c \in {"TMAX", "TMIN", "PRCP", "AWND", "SNOW"} |->
        CASE c = "TMAX" -> 70 [] c = "TMIN" -> 20 [] c = "PRCP" -> 3
          [] c = "AWND" -> 5 [] OTHER -> 7]}

FullTrafficCells(volumes) ==
    {[c \in {"traffic_volume", "avg_speed"} |->
        IF c = "traffic_volume" THEN v ELSE sp] :
        v \in volumes, sp \in {30}}

\* a weather frame and a traffic frame of up to n records each: temperature
\* against volume with Timestamp or string dates, the traffic dated every day
\* or every k-th day; all weather columns against volume and speed, or against
\* speed alone; and frames with a malformed date or without a date column
JoinInputs(n, volumes, kinds, strides) ==
    {<<DatedFrame(kw, 1, wc), DatedFrame(kt, k, tc)>> :
        kw \in kinds, kt \in kinds, k \in strides,
        wc \in SeqsUpTo(TemperatureCells, n),
        tc \in SeqsUpTo(OneColumn("traffic_volume", volumes), n)}
    \cup {<<DatedFrame("ts", 1, wc), DatedFrame("str", 1, tc)>> :
        wc \in SeqsUpTo(FullWeatherCells, n),
        tc \in SeqsUpTo(FullTrafficCells(volumes), n - 1)
               \cup SeqsUpTo(OneColumn("avg_speed", {30, 40}), n - 1)}
    \cup {<<DataFrame({"date", "TMAX"}, <<[date |-> d, TMAX |-> 95]>>),
            DatedFrame("str", 1, tc)>> :
        d \in {BadDate, NoneDate},
        tc \in SeqsUpTo(OneColumn("traffic_volume", volumes), 1)}
    \cup {<<DatedFrame("str", 1, wc),
            DataFrame({"date", "traffic_volume"}, <<[date |-> d, traffic_volume |-> v]>>)>> :
        d \in {BadDate, NoneDate}, v \in volumes,
        wc \in SeqsUpTo(TemperatureCells, 1)}
    \cup {<<DataFrame({"TMAX"}, wc), DatedFrame("str", 1, tc)>> :
        wc \in SeqsUpTo(OneColumn("TMAX", {95}), 1),
        tc \in SeqsUpTo(OneColumn("traffic_volume", volumes), 1)}

\* n days of one temperature followed by a day of another against n days of
\* traffic, with Timestamp dates, for coefficients of every strength and
\* either sign
StrengthInputs(n) ==
    {<<DatedFrame("ts", 1,
            [i \in 1..n |-> [c \in {"TMAX"} |-> IF i < n THEN ab[1] ELSE ab[2]]]),
       DatedFrame("ts", 1, tc)>> :
        ab \in {<<70, 95>>, <<95, 70>>},
        tc \in [1..n -> OneColumn("traffic_volume", {0, 2, 4, 5})]}

\* four days of 95 degrees with 50000 vehicles, then six days of 70 degrees
\* with 100000 vehicles, on matching dates
ScenarioWeather ==
    DatedFrame("ts", 1, [i \in 1..10 |-> [c \in {"TMAX"} |-> IF i <= 4 THEN 95 ELSE 70]])

ScenarioTraffic ==
    DatedFrame("str", 1,
        [i \in 1..10 |-> [c \in {"traffic_volume"} |-> IF i <= 4 THEN 50000 ELSE 100000]])

----------------------------------------------------------------------------
(* Inputs of the four operations together: the shapes of a series *)

MaxShapeLen == 2

\* records with every optional field, holding a value or missing
FullShapeRows ==
    {[c \in {"date", "TMAX", "PRCP", "AWND"} |->
        CASE c = "date" -> d
          [] c = "TMAX" -> IF filled THEN 95 ELSE NaN
          [] c = "PRCP" -> IF filled THEN 3 ELSE NaN
          [] OTHER -> IF filled THEN 51 ELSE NaN] :
        d \in {StrDate(1), BadDate, NoneDate}, filled \in BOOLEAN}

\* records with the date only
DateOnlyRows == {[c \in {"date"} |-> d] : d \in {StrDate(1), Timestamp(1), BadDate}}

\* records lacking the date field
UndatedRows == {[c \in {"TMAX", "PRCP"} |-> v] : v \in {95, NaN}}

\* weather series of up to n records: empty, single-record and longer, with
\* all optional fields, with none, and without the date field
WeatherShapes(n) ==
    {NoFrame}
    \cup {DataFrame({"date", "TMAX", "PRCP", "AWND"}, rs) : rs \in SeqsUpTo(FullShapeRows, n)}
    \cup {DataFrame({"date"}, rs) : rs \in SeqsUpTo(DateOnlyRows, n)}
    \cup {DataFrame({"TMAX", "PRCP"}, rs) : rs \in SeqsUpTo(UndatedRows, n)}

\* traffic series: empty, or one record with or without date and volume
TrafficShapes ==
    {NoFrame, DataFrame({"date", "traffic_volume"}, <<>>)}
    \cup {DataFrame({"date", "traffic_volume"},
                    <<[c \in {"date", "traffic_volume"} |->
                        IF c = "date" THEN d ELSE v]>>) :
            d \in {StrDate(1), BadDate}, v \in {100, NaN}}
    \cup {DataFrame({"traffic_volume"}, <<[c \in {"traffic_volume"} |-> 100]>>),
           DataFrame({"date"}, <<[c \in {"date"} |-> StrDate(1)]>>)}

----------------------------------------------------------------------------
(* Operations *)

\* cleaned = weather_processor.clean_weather_data(weather_df)
Clean ==
    /\ cleaned_df' \in clean_weather_data(weather_df)
    /\ weather_df' = argument_after_clean(weather_df)
    /\ last' = "clean"
    /\ UNCHANGED app_vars
    /\ UNCHANGED <<traffic_df, events, correlations, impact_analysis, origin>>

\* weather_df = weather_processor.clean_weather_data(weather_df): the caller
\* rebinds its frame to the cleaned one
Rebind ==
    /\ last = "clean"
    /\ origin = "raw"
    /\ weather_df' = cleaned_df
    /\ origin' = "cleaned"
    /\ last' = "rebind"
    /\ UNCHANGED app_vars
    /\ UNCHANGED <<traffic_df, cleaned_df, events, correlations,
                   impact_analysis>>

\* events = weather_processor.detect_extreme_events(weather_df)
Detect ==
    /\ events' = detect_extreme_events(weather_df)
    /\ last' = "detect"
    /\ UNCHANGED app_vars
    /\ UNCHANGED <<weather_df, traffic_df, cleaned_df, correlations,
                   impact_analysis, origin>>

\* correlations = correlation_analyzer.analyze_weather_traffic_correlation(
\*     weather_df, traffic_df)
Correlate ==
    LET call == analyze_weather_traffic_correlation(weather_df, traffic_df)
    IN /\ correlations' = call.ret
       /\ weather_df' = call.weather_df
       /\ traffic_df' = call.traffic_df
       /\ last' = "correlate"
       /\ UNCHANGED app_vars
       /\ UNCHANGED <<cleaned_df, events, impact_analysis, origin>>

\* impact = correlation_analyzer.analyze_extreme_weather_impact(
\*     weather_df, traffic_df)
AnalyzeImpact ==
    LET call == analyze_extreme_weather_impact(weather_df, traffic_df)
    IN /\ impact_analysis' = call.ret
       /\ weather_df' = call.weather_df
       /\ traffic_df' = call.traffic_df
       /\ last' = "impact"
       /\ UNCHANGED app_vars
       /\ UNCHANGED <<cleaned_df, events, correlations, origin>>

InitClean ==
    /\ weather_df \in CleanInputs(MaxTrimLen, MaxCleanLen, MaxTwoTempLen)
    /\ traffic_df = NoFrame
    /\ cleaned_df = NoFrame
    /\ events = NoEvents
    /\ correlations = NoResult
    /\ impact_analysis = NoResult
    /\ origin = "raw"
    /\ last = "init"
    /\ AppIdle

NextClean == Clean \/ Rebind

SpecClean == InitClean /\ [][NextClean]_vars

InitDetect ==
    /\ weather_df \in DetectInputs(MaxDroughtLen, MaxRunLen, MaxPointLen, MaxStride,
                                MaxTwoRunLen)
    /\ traffic_df = NoFrame
    /\ cleaned_df = NoFrame
    /\ events = NoEvents
    /\ correlations = NoResult
    /\ impact_analysis = NoResult
    /\ origin = "raw"
    /\ last = "init"
    /\ AppIdle

NextDetect == Detect

\* events = weather_fetcher.detect_extreme_events(weather_data)
FetcherDetect ==
    /\ events' = WeatherAPIFetcher_detect_extreme_events(weather_df)
    /\ last' = "fetcher_detect"
    /\ UNCHANGED app_vars
    /\ UNCHANGED <<weather_df, traffic_df, cleaned_df, correlations,
                   impact_analysis, origin>>

NextFetcher == FetcherDetect

\* the column a group of rows was selected on
GroupColumn(df) == CHOOSE c \in df.cols : c # "date"

\* events.append({...}) for the group of rows in weather_df
RunEvent ==
    /\ events' \in run_event_float64(weather_df.rows, GroupColumn(weather_df))
    /\ last' = "run_event"
    /\ UNCHANGED app_vars
    /\ UNCHANGED <<weather_df, traffic_df, cleaned_df, correlations,
                   impact_analysis, origin>>

InitRunEvent ==
    /\ weather_df \in RunInputs(MaxGroupLen, MaxDroughtLen)
    /\ traffic_df = NoFrame
    /\ cleaned_df = NoFrame
    /\ events = NoEvents
    /\ correlations = NoResult
    /\ impact_analysis = NoResult
    /\ origin = "raw"
    /\ last = "init"
    /\ AppIdle

NextRunEvent == RunEvent

SpecRunEvent == InitRunEvent /\ [][NextRunEvent]_vars

SpecFetcher == InitDetect /\ [][NextFetcher]_vars

SpecDetect == InitDetect /\ [][NextDetect]_vars

processor_vars ==
    <<weather_df, traffic_df, cleaned_df, events, correlations,
      impact_analysis, origin>>

ProcessorIdle ==
    /\ weather_df = NoFrame
    /\ traffic_df = NoFrame
    /\ cleaned_df = NoFrame
    /\ events = NoEvents
    /\ correlations = NoResult
    /\ impact_analysis = NoResult
    /\ origin = "raw"

\* is_valid, error_msg = validate_date_range(start_date, end_date)
Validate ==
    /\ validation' = validate_date_range(start_date, end_date, now)
    /\ last' = "validate"
    /\ UNCHANGED <<session_state, start_date, end_date, now>>
    /\ UNCHANGED processor_vars

InitValidate ==
    /\ ProcessorIdle
    /\ last = "init"
    /\ session_state = NewSession
    /\ start_date \in DateStrings
    /\ end_date \in DateStrings
    /\ now \in NowChoices
    /\ validation = None

NextValidate == Validate

SpecValidate == InitValidate /\ [][NextValidate]_vars

\* a press of the Load Data button: load_data(data_source, selected_city,
\* start_date, end_date)
LoadData ==
    \E data_source \in {"Sample Data", "Real-time APIs"},
       city \in {"New York", "Springfield"},
       first_day \in DayChoices, last_day \in DayChoices,
       api \in ApiOutcomes :
        LET call == load_data(session_state, data_source, city, first_day,
                              last_day, now, api)
        IN /\ session_state' = call.session_state
           /\ validation' = call.validation
           /\ start_date' = StrDate(first_day)
           /\ end_date' = StrDate(last_day)
           /\ last' = "load_data"
           /\ UNCHANGED now
           /\ UNCHANGED processor_vars

InitApp ==
    /\ ProcessorIdle
    /\ last = "init"
    /\ session_state = NewSession
    /\ start_date = NoneDate
    /\ end_date = NoneDate
    /\ now \in NowChoices
    /\ validation = None

NextApp == LoadData

SpecApp == InitApp /\ [][NextApp]_vars

InitFrames(inputs) ==
    /\ \E pair \in inputs : weather_df = pair[1] /\ traffic_df = pair[2]
    /\ cleaned_df = NoFrame
    /\ events = NoEvents
    /\ correlations = NoResult
    /\ impact_analysis = NoResult
    /\ origin = "raw"
    /\ last = "init"
    /\ AppIdle

InitCorr ==
    InitFrames(JoinInputs(MaxJoinLen, {0, 2}, {"str", "ts"}, {1, 2})
               \cup StrengthInputs(MaxJoinLen))

NextCorr == Correlate \/ AnalyzeImpact

SpecCorr == InitCorr /\ [][NextCorr]_vars

InitImpact ==
    InitFrames(JoinInputs(MaxJoinLen, {0, 50000, 100000}, {"str"}, {1})
               \cup {<<ScenarioWeather, ScenarioTraffic>>})

NextImpact == AnalyzeImpact

SpecImpact == InitImpact /\ [][NextImpact]_vars

\* the four operations on series of every shape, in any order
Init == InitFrames(WeatherShapes(MaxShapeLen) \X TrafficShapes)

Next == Clean \/ Rebind \/ Detect \/ Correlate \/ AnalyzeImpact

Spec == Init /\ [][Next]_vars

----------------------------------------------------------------------------
(* Properties of detect_extreme_events *)

RunCategories == {"heatwaves", "cold_spells", "drought_periods"}

RunColumn(cat) ==
    CASE cat = "heatwaves" -> "TMAX"
      [] cat = "cold_spells" -> "TMIN"
      [] OTHER -> "PRCP"

\* the predicate of a run category on one record, as the claim states it
Qualifies(cat, r) ==
    /\ ~IsNaN(r[RunColumn(cat)])
    /\ CASE cat = "heatwaves" -> r["TMAX"] > 90
         [] cat = "cold_spells" -> r["TMIN"] < 32
         [] OTHER -> r["PRCP"] = 0

MinRun(cat) == IF cat = "drought_periods" THEN 7 ELSE 3

\* the maximal runs of positionally consecutive qualifying records
MaximalRuns(df, cat) ==
    {run \in (1..Len(df.rows)) \X (1..Len(df.rows)) :
        /\ run[1] <= run[2]
        /\ \A i \in run[1]..run[2] : Qualifies(cat, df.rows[i])
        /\ run[1] = 1 \/ ~Qualifies(cat, df.rows[run[1] - 1])
        /\ run[2] = Len(df.rows) \/ ~Qualifies(cat, df.rows[run[2] + 1])}

LongRuns(df, cat) ==
    {run \in MaximalRuns(df, cat) : run[2] - run[1] + 1 >= MinRun(cat)}

\* the date column holds Timestamps, as after a successful clean
DatesAreTimestamps(df) ==
    "date" \in df.cols /\ \A i \in 1..Len(df.rows) : df.rows[i]["date"].kind = "ts"

IsoDate(df, i) == StrDate(df.rows[i]["date"].day)

\* the position of the record of that date
PositionOf(df, date) ==
    CHOOSE i \in 1..Len(df.rows) : StrDate(df.rows[i]["date"].day) = date

\* C1: for each run category whose column is present, detect emits exactly
\* one run event per maximal run of at least the minimum length (3, 3, 7),
\* from the run's first date to its last, and none for a shorter run.
C1_OneEventPerLongRun ==
    (last = "detect" /\ DatesAreTimestamps(weather_df)) =>
        \A cat \in RunCategories :
            RunColumn(cat) \in weather_df.cols =>
                /\ Len(events[cat]) = Cardinality(LongRuns(weather_df, cat))
                /\ \A run \in LongRuns(weather_df, cat) :
                    \E k \in 1..Len(events[cat]) :
                        /\ events[cat][k].start_date = IsoDate(weather_df, run[1])
                        /\ events[cat][k].end_date = IsoDate(weather_df, run[2])
                /\ \A k \in 1..Len(events[cat]) :
                    \E run \in LongRuns(weather_df, cat) :
                        /\ events[cat][k].start_date = IsoDate(weather_df, run[1])
                        /\ events[cat][k].end_date = IsoDate(weather_df, run[2])

\* a run of exactly the minimum length was reported while a shorter run of
\* the same series was not
C1_Witness ==
    /\ last = "detect"
    /\ DatesAreTimestamps(weather_df)
    /\ \E cat \in RunCategories :
        /\ RunColumn(cat) \in weather_df.cols
        /\ \E k \in 1..Len(events[cat]) : events[cat][k].duration = MinRun(cat)
        /\ \E run \in MaximalRuns(weather_df, cat) :
                run[2] - run[1] + 1 = MinRun(cat) - 1

\* C2: the duration of every run event is the distance in positions between
\* its end and start records plus one, and the number of qualifying records
\* from start_date to end_date.
C2_DurationIsRunLength ==
    last = "detect" =>
        \A cat \in RunCategories :
            \A k \in 1..Len(events[cat]) :
                LET ev == events[cat][k]
                    s == PositionOf(weather_df, ev.start_date)
                    e == PositionOf(weather_df, ev.end_date)
                IN /\ ev.duration = (e - s) + 1
                   /\ ev.duration =
                        Cardinality({i \in s..e : Qualifies(cat, weather_df.rows[i])})

\* a run event over records whose dates are two days apart
C2_Witness ==
    /\ last = "detect"
    /\ \E k \in 1..Len(events.heatwaves) :
        /\ events.heatwaves[k].duration = 4
        /\ events.heatwaves[k].start_date = StrDate(2)
        /\ events.heatwaves[k].end_date = StrDate(8)

C25_FetcherNeedsConsecutiveDays ==
    (last = "fetcher_detect" /\ events # Propagated) =>
        /\ \A k \in 1..Len(events.heatwaves) :
            \E run \in LongRuns(weather_df, "heatwaves") :
                events.heatwaves[k].duration = run[2] - run[1] + 1
        /\ \A k \in 1..Len(events.cold_spells) :
            \E run \in LongRuns(weather_df, "cold_spells") :
                events.cold_spells[k].duration = run[2] - run[1] + 1

\* C28: within one run category the events are listed in chronological
\* order, no record lies in two of them, and between the end of an event and
\* the start of the next there is a record that does not qualify.
C28_RunEventsDisjointInOrder ==
    (last = "detect" /\ DatesAreTimestamps(weather_df)) =>
        \A cat \in RunCategories :
            LET first(k) == PositionOf(weather_df, events[cat][k].start_date)
                final(k) == PositionOf(weather_df, events[cat][k].end_date)
            IN /\ \A k \in 1..Len(events[cat]) : first(k) <= final(k)
               /\ \A k \in 1..(Len(events[cat]) - 1) :
                    /\ final(k) < first(k + 1)
                    /\ \E i \in (final(k) + 1)..(first(k + 1) - 1) :
                        ~Qualifies(cat, weather_df.rows[i])
               /\ \A i \in 1..Len(weather_df.rows) :
                    Cardinality({k \in 1..Len(events[cat]) :
                                    first(k) <= i /\ i <= final(k)}) <= 1

\* two heatwaves were found in one series, a single cooler record between
\* them
C28_Witness ==
    /\ last = "detect"
    /\ DatesAreTimestamps(weather_df)
    /\ Len(events.heatwaves) = 2
    /\ events.heatwaves[1].end_date = StrDate(3)
    /\ events.heatwaves[2].start_date = StrDate(5)

\* the readings of the group an event was built from
GroupReadings ==
    [i \in 1..Len(weather_df.rows) |-> weather_df.rows[i][GroupColumn(weather_df)]]

\* C29 as stated: the average of every run event lies between its minimum
\* and its maximum.
C29_AverageBetweenExtremes ==
    last = "run_event" =>
        /\ ~Less(events.avg_value, events.min_value)
        /\ ~Less(events.max_value, events.avg_value)

\* C29 as amended: max_value and min_value are the largest and the smallest
\* reading of exactly the records of the run, so a heatwave has min_value
\* above 90, a cold spell max_value below 32 and a drought 0 for all three
\* aggregates; avg_value is the rounded mean and lies no further outside
\* [min_value, max_value] than one float64 step per record.
C29_AggregatesOverTheRun ==
    last = "run_event" =>
        LET vals == GroupReadings
            step == Len(vals) * Spacing(events.max_value)
        IN /\ events.max_value \in Range(vals)
           /\ events.min_value \in Range(vals)
           /\ \A v \in Range(vals) :
                ~Less(events.max_value, v) /\ ~Less(v, events.min_value)
           /\ events.duration = Len(vals)
           /\ GroupColumn(weather_df) = "TMAX" => Less(Temp90, events.min_value)
           /\ GroupColumn(weather_df) = "TMIN" => Less(events.max_value, Temp32)
           /\ GroupColumn(weather_df) = "PRCP" =>
                /\ events.max_value = Zero
                /\ events.min_value = Zero
                /\ events.avg_value = Zero
           /\ ~Less(PlusUnits(events.avg_value, step), events.min_value)
           /\ ~Less(PlusUnits(events.max_value, step), events.avg_value)

\* three records of 90.1 degrees gave an average below the minimum
C29_Witness ==
    /\ last = "run_event"
    /\ Len(weather_df.rows) = 3
    /\ \A v \in Range(GroupReadings) : v = Temp90_1
    /\ events.min_value = Temp90_1
    /\ Less(events.avg_value, events.min_value)

\* the six categories of events
Categories ==
    {"heatwaves", "cold_spells", "heavy_rainfall", "snowstorms", "high_winds",
     "drought_periods"}

\* C14: the result of detect always has the six categories, and on an empty
\* series every one of them is an empty list.
C14_AllCategoriesPresent ==
    last = "detect" =>
        /\ DOMAIN events = Categories
        /\ Len(weather_df.rows) = 0 => \A k \in Categories : events[k] = <<>>

\* detect has run on a series without records
C14_Witness ==
    /\ last = "detect"
    /\ Len(weather_df.rows) = 0
    /\ "date" \in weather_df.cols

PointCategories == {"heavy_rainfall", "snowstorms", "high_winds"}

\* the field a category is detected from
SourceField(cat) ==
    CASE cat = "heatwaves" -> "TMAX"
      [] cat = "cold_spells" -> "TMIN"
      [] cat = "snowstorms" -> "SNOW"
      [] cat = "high_winds" -> "AWND"
      [] OTHER -> "PRCP"

\* the threshold a point category is above, as the claims state it
PointThreshold(cat) ==
    CASE cat = "heavy_rainfall" -> 2
      [] cat = "snowstorms" -> 6
      [] OTHER -> 20

\* the positions of the records that qualify for a point category
PointRecords(df, cat) ==
    {i \in 1..Len(df.rows) :
        /\ ~IsNaN(df.rows[i][SourceField(cat)])
        /\ df.rows[i][SourceField(cat)] > PointThreshold(cat)}

\* the number of events a category should have
ExpectedEvents(df, cat) ==
    IF cat \in PointCategories THEN Cardinality(PointRecords(df, cat))
    ELSE Cardinality(LongRuns(df, cat))

\* C15 as stated: a category whose source field is absent from a series with
\* records is left out of the result.
C15_MissingFieldOmitsKey ==
    (last = "detect" /\ Len(weather_df.rows) > 0) =>
        \A cat \in Categories :
            SourceField(cat) \notin weather_df.cols => cat \notin DOMAIN events

\* C15 as amended: a category whose source field is absent is in the result
\* with an empty list, and on a series with Timestamp dates every category
\* whose source field is present still has all its events.
C15_MissingFieldGivesEmptyList ==
    last = "detect" =>
        \A cat \in Categories :
            /\ SourceField(cat) \notin weather_df.cols =>
                    (cat \in DOMAIN events /\ events[cat] = <<>>)
            /\ (DatesAreTimestamps(weather_df)
                    /\ SourceField(cat) \in weather_df.cols) =>
                    Len(events[cat]) = ExpectedEvents(weather_df, cat)

\* high winds were detected in a series that has no temperature, no
\* precipitation and no snowfall field
C15_Witness ==
    /\ last = "detect"
    /\ weather_df.cols = {"date", "AWND"}
    /\ Len(events.high_winds) > 0
    /\ events.heatwaves = <<>>
    /\ events.snowstorms = <<>>

\* the position of the k-th record that qualifies for a point category
KthPointRecord(df, cat, k) ==
    CHOOSE i \in PointRecords(df, cat) :
        Cardinality({j \in PointRecords(df, cat) : j <= i}) = k

\* C16: on a series with Timestamp dates, each point category whose field is
\* present has exactly one event per record above its threshold (2.0, 6.0,
\* 20.0), whatever its neighbours, and the events are in the order of the
\* records, which is chronological for a sorted series.
C16_OneEventPerQualifyingRecord ==
    (last = "detect" /\ DatesAreTimestamps(weather_df)) =>
        \A cat \in PointCategories :
            SourceField(cat) \in weather_df.cols =>
                /\ Len(events[cat]) = Cardinality(PointRecords(weather_df, cat))
                /\ \A k \in 1..Len(events[cat]) :
                    LET i == KthPointRecord(weather_df, cat, k)
                    IN /\ events[cat][k].date = IsoDate(weather_df, i)
                       /\ events[cat][k].value
                            = weather_df.rows[i][SourceField(cat)]
                /\ \A k \in 1..(Len(events[cat]) - 1) :
                    events[cat][k].date.day < events[cat][k + 1].date.day

\* two consecutive days of heavy rain gave two events, while only one of
\* the two days was a snowstorm
C16_Witness ==
    /\ last = "detect"
    /\ DatesAreTimestamps(weather_df)
    /\ Len(weather_df.rows) = 2
    /\ {"PRCP", "SNOW"} \subseteq weather_df.cols
    /\ Len(events.heavy_rainfall) = 2
    /\ Len(events.snowstorms) = 1
    /\ events.snowstorms[1].date = StrDate(2)

\* C17: a high-wind event is "extreme" exactly when its wind speed is above
\* 50.0 mph; at exactly 50.0 it is not.
C17_ExtremeAboveFifty ==
    last = "detect" =>
        \A k \in 1..Len(events.high_winds) :
            events.high_winds[k].severity = "extreme"
                <=> events.high_winds[k].value > 50

----------------------------------------------------------------------------
(* Properties of the correlation and impact analyses *)

\* the pairs of a weather record and a traffic record of the same date
Joined ==
    {ij \in (1..Len(weather_df.rows)) \X (1..Len(traffic_df.rows)) :
        weather_df.rows[ij[1]]["date"] = traffic_df.rows[ij[2]]["date"]}

\* both date columns were converted, so the join was made
JoinMade ==
    /\ "date" \in weather_df.cols
    /\ "date" \in traffic_df.cols
    /\ \A i \in 1..Len(weather_df.rows) :
            weather_df.rows[i]["date"].kind \in {"ts", "nat"}
    /\ \A j \in 1..Len(traffic_df.rows) :
            traffic_df.rows[j]["date"].kind \in {"ts", "nat"}

\* the joined pairs where both fields hold a value
PairedObservations(xcol, ycol) ==
    {ij \in Joined : /\ ~IsNaN(weather_df.rows[ij[1]][xcol])
                     /\ ~IsNaN(traffic_df.rows[ij[2]][ycol])}

FieldsPresent(xcol, ycol) == xcol \in weather_df.cols /\ ycol \in traffic_df.cols

\* C6 as stated: a pair is in the result only when both fields are present
\* and at least 2 paired non-missing observations remain after the join.
C6_PairNeedsTwoObservations ==
    last = "correlate" =>
        \A p \in CorrelationPairs :
            p[1] \in DOMAIN correlations =>
                /\ FieldsPresent(p[2], p[3])
                /\ Cardinality(PairedObservations(p[2], p[3])) >= 2

\* C6 as amended: a pair is in the result exactly when the join is not empty
\* and both fields are present; with fewer than 2 paired non-missing
\* observations it is still reported, as correlation 0.0, strength
\* negligible and p-value 1.0.
C6_PairReportedWhenFieldsPresent ==
    last = "correlate" =>
        \A p \in CorrelationPairs :
            /\ p[1] \in DOMAIN correlations <=>
                (JoinMade /\ Joined # {} /\ FieldsPresent(p[2], p[3]))
            /\ (/\ p[1] \in DOMAIN correlations
                /\ Cardinality(PairedObservations(p[2], p[3])) < 2) =>
                    /\ correlations[p[1]].correlation.kind = "r"
                    /\ correlations[p[1]].correlation.sxy = 0
                    /\ correlations[p[1]].strength = "negligible"
                    /\ correlations[p[1]].p_value.kind = "one"

\* a pair was reported from a single paired observation
C6_Witness ==
    /\ last = "correlate"
    /\ "temperature_traffic" \in DOMAIN correlations
    /\ Cardinality(PairedObservations("TMAX", "traffic_volume")) = 1

\* the joined pairs where the condition on the weather field is true
ExtremePairs(col, threshold) ==
    {ij \in Joined : /\ ~IsNaN(weather_df.rows[ij[1]][col])
                     /\ weather_df.rows[ij[1]][col] > threshold}

TrafficSum(pairs) ==
    LET RECURSIVE Total(_)
        Total(S) == IF S = {} THEN 0
                    ELSE LET ij == CHOOSE x \in S : TRUE
                         IN traffic_df.rows[ij[2]]["traffic_volume"]
                            + Total(S \ {ij})
    IN Total(pairs)

\* the conditions as the claims state them
ClaimedConditions ==
    {<<"heatwave_impact", "TMAX", 90>>, <<"heavy_rain_impact", "PRCP", 2>>,
     <<"snowstorm_impact", "SNOW", 6>>, <<"high_wind_impact", "AWND", 20>>}

\* C7: no result carries an infinite or undefined relative change: a
\* condition whose normal days average exactly zero traffic is omitted.
C7_ZeroNormalMeanOmitted ==
    last = "impact" =>
        \A key \in DOMAIN impact_analysis :
            /\ impact_analysis[key].traffic_reduction.kind = "finite"
            /\ impact_analysis[key].avg_traffic_normal.num # 0

\* C8: a condition is in the result only if some joined day is extreme and
\* some joined day is not; extreme_days counts the extreme ones.
C8_BothSubsetsNonEmpty ==
    last = "impact" =>
        \A c \in ClaimedConditions :
            c[1] \in DOMAIN impact_analysis =>
                /\ c[2] \in weather_df.cols
                /\ ExtremePairs(c[2], c[3]) # {}
                /\ Joined \ ExtremePairs(c[2], c[3]) # {}
                /\ impact_analysis[c[1]].extreme_days
                        = Cardinality(ExtremePairs(c[2], c[3]))

\* every joined day was a heatwave day, and the heatwave impact was omitted
C8_Witness ==
    /\ last = "impact"
    /\ JoinMade
    /\ FieldsPresent("TMAX", "traffic_volume")
    /\ Cardinality(Joined) >= 2
    /\ ExtremePairs("TMAX", 90) = Joined
    /\ "heatwave_impact" \notin DOMAIN impact_analysis

RECURSIVE Gcd(_, _)
Gcd(a, b) == IF b = 0 THEN a ELSE Gcd(b, a % b)

\* the fraction num / den (den > 0) in lowest terms
Lowest(num, den) ==
    LET g == Gcd(IF num < 0 THEN 0 - num ELSE num, den)
    IN <<num \div g, den \div g>>

\* the joined pairs that count as normal days: a reading at or below the
\* threshold (a day without a reading is in neither subset)
NormalPairs(col, threshold) ==
    {ij \in Joined : /\ ~IsNaN(weather_df.rows[ij[1]][col])
                     /\ weather_df.rows[ij[1]][col] <= threshold}

\* C9: the means of every emitted result are those of its extreme and its
\* normal days, and every finite relative change is (mean normal - mean
\* extreme) / mean normal x 100, positive exactly when the extreme days
\* carry less traffic on average; in the scenario of 4 days at 95 degrees
\* with 50000 vehicles and 6 days at 70 degrees with 100000 vehicles the
\* heatwave result is 50000, 100000, 50.0 and 4 days.
C9_RelativeChange ==
    last = "impact" =>
        /\ \A c \in ClaimedConditions :
            c[1] \in DOMAIN impact_analysis =>
                LET ext == ExtremePairs(c[2], c[3])
                    nrm == NormalPairs(c[2], c[3])
                    sumE == TrafficSum(ext)
                    sumN == TrafficSum(nrm)
                    nE == Cardinality(ext)
                    nN == Cardinality(nrm)
                    result == impact_analysis[c[1]]
                    change == result.traffic_reduction
                IN /\ result.avg_traffic_extreme.num * nE
                        = sumE * result.avg_traffic_extreme.den
                   /\ result.avg_traffic_normal.num * nN
                        = sumN * result.avg_traffic_normal.den
                   /\ change.kind = "finite" =>
                        /\ sumN * nE > 0
                        /\ Lowest(change.num, change.den)
                            = Lowest(100 * (sumN * nE - sumE * nN), sumN * nE)
                        /\ change.num > 0 <=> sumE * nN < sumN * nE
        /\ (Len(weather_df.rows) = 10 /\ Len(traffic_df.rows) = 10) =>
                /\ "heatwave_impact" \in DOMAIN impact_analysis
                /\ LET h == impact_analysis["heatwave_impact"]
                   IN /\ h.avg_traffic_extreme.num = 50000 * h.avg_traffic_extreme.den
                      /\ h.avg_traffic_normal.num = 100000 * h.avg_traffic_normal.den
                      /\ h.traffic_reduction.kind = "finite"
                      /\ h.traffic_reduction.num = 50 * h.traffic_reduction.den
                      /\ h.extreme_days = 4

\* the impact analysis has run on the ten-day scenario
C9_Witness ==
    /\ last = "impact"
    /\ weather_df = ScenarioWeather
    /\ traffic_df = ConvertDates(ScenarioTraffic)
    /\ "heatwave_impact" \in DOMAIN impact_analysis

\* C10: neither analysis changes the caller's weather or traffic frame, the
\* value and type of the date column included.
C10_ArgumentsUnchanged ==
    [][(Correlate \/ AnalyzeImpact) =>
            (weather_df' = weather_df /\ traffic_df' = traffic_df)]_vars

\* the days that both series have a record of
SharedDays ==
    IF "date" \in weather_df.cols /\ "date" \in traffic_df.cols
    THEN {weather_df.rows[i]["date"].day :
            i \in {k \in 1..Len(weather_df.rows) :
                    weather_df.rows[k]["date"].kind \in {"str", "ts"}}}
         \cap {traffic_df.rows[j]["date"].day :
                j \in {k \in 1..Len(traffic_df.rows) :
                    traffic_df.rows[k]["date"].kind \in {"str", "ts"}}}
    ELSE {}

\* C19: each analysis joins the two series itself, on equal dates, and
\* computes over the joined records only; when a series is empty or no date
\* is shared the result is the empty mapping.
C19_JoinOnSharedDates ==
    /\ last = "correlate" =>
        /\ (Len(weather_df.rows) = 0 \/ Len(traffic_df.rows) = 0
                \/ SharedDays = {}) => correlations = NoResult
        /\ \A p \in CorrelationPairs :
                p[1] \in DOMAIN correlations =>
                    correlations[p[1]].p_value.n
                        = Cardinality(PairedObservations(p[2], p[3]))
    /\ last = "impact" =>
        /\ (Len(weather_df.rows) = 0 \/ Len(traffic_df.rows) = 0
                \/ SharedDays = {}) => impact_analysis = NoResult
        /\ \A c \in ClaimedConditions :
                c[1] \in DOMAIN impact_analysis =>
                    /\ impact_analysis[c[1]].extreme_days
                            = Cardinality(ExtremePairs(c[2], c[3]))
                    /\ impact_analysis[c[1]].avg_traffic_normal.den
                            = Cardinality(NormalPairs(c[2], c[3]))

\* two series with records but no date in common gave the empty mapping
C19_Witness ==
    /\ last = "correlate"
    /\ JoinMade
    /\ Len(weather_df.rows) > 0
    /\ Len(traffic_df.rows) > 0
    /\ SharedDays = {}
    /\ correlations = NoResult

\* the label of a coefficient sxy / sqrt(sxx * syy) by its absolute value
LabelOf(r) ==
    LET a == IF r.sxy < 0 THEN 0 - r.sxy ELSE r.sxy
    IN IF r.kind # "r" THEN "negligible"
       ELSE IF 100 * a * a >= 49 * r.sxx * r.syy THEN "strong"
       ELSE IF 100 * a * a >= 25 * r.sxx * r.syy THEN "moderate"
       ELSE IF 100 * a * a >= 9 * r.sxx * r.syy THEN "weak"
       ELSE "negligible"

Negated(r) == [r EXCEPT !.sxy = 0 - r.sxy]

\* C20: the strength of every reported pair is "strong" for |r| >= 0.7,
\* else "moderate" for |r| >= 0.5, else "weak" for |r| >= 0.3, else
\* "negligible", and the negated coefficient gets the same label.
C20_StrengthFromAbsoluteValue ==
    last = "correlate" =>
        \A key \in DOMAIN correlations :
            /\ correlations[key].strength = LabelOf(correlations[key].correlation)
            /\ get_correlation_strength(Negated(correlations[key].correlation))
                    = correlations[key].strength

\* a negative coefficient of at least 0.7 in absolute value was labelled
\* strong, next to pairs that are not
C20_Witness ==
    /\ last = "correlate"
    /\ "temperature_traffic" \in DOMAIN correlations
    /\ correlations["temperature_traffic"].correlation.kind = "r"
    /\ correlations["temperature_traffic"].correlation.sxy < 0
    /\ correlations["temperature_traffic"].strength = "strong"

\* C22 as stated: for each condition whose field is present the extreme and
\* the normal subset together hold every joined row, with or without a
\* value: their sizes add up to the number of joined rows.
C22_SubsetsCoverJoinedRows ==
    (last = "impact" /\ JoinMade) =>
        \A c \in ClaimedConditions :
            c[2] \in weather_df.cols =>
                LET merged_df == merge(weather_df, traffic_df)
                IN Len(ExtremeDays(merged_df, c[2], c[3]))
                    + Len(NormalDays(merged_df, c[2], c[3]))
                        = Cardinality(Joined)

\* C22 as amended: the two subsets are disjoint and together hold exactly
\* the joined rows whose weather value is present; a joined row whose value
\* is missing is in neither subset.
C22_SubsetsCoverPresentRows ==
    (last = "impact" /\ JoinMade) =>
        \A c \in ClaimedConditions :
            c[2] \in weather_df.cols =>
                LET merged_df == merge(weather_df, traffic_df)
                    extreme == ExtremeDays(merged_df, c[2], c[3])
                    normal == NormalDays(merged_df, c[2], c[3])
                IN /\ Len(extreme) = Cardinality(ExtremePairs(c[2], c[3]))
                   /\ Len(normal) = Cardinality(NormalPairs(c[2], c[3]))
                   /\ ExtremePairs(c[2], c[3]) \cap NormalPairs(c[2], c[3]) = {}
                   /\ ExtremePairs(c[2], c[3]) \cup NormalPairs(c[2], c[3])
                        = {ij \in Joined : ~IsNaN(weather_df.rows[ij[1]][c[2]])}

\* a heatwave impact was reported from three joined days, one of them
\* without a temperature
C22_Witness ==
    /\ last = "impact"
    /\ JoinMade
    /\ "heatwave_impact" \in DOMAIN impact_analysis
    /\ Cardinality(Joined) = 3
    /\ \E ij \in Joined : IsNaN(weather_df.rows[ij[1]]["TMAX"])
    /\ impact_analysis["heatwave_impact"].extreme_days
        + impact_analysis["heatwave_impact"].avg_traffic_normal.den = 2

\* C21: every call of one of the four operations leaves unchanged what each
\* of the four would return for the frames of the caller, so a call returns
\* the same whether it comes first or after any other calls.
C21_CallsLeaveResultsUnchanged ==
    [][last' \in {"clean", "detect", "correlate", "impact"} =>
        /\ clean_weather_data(weather_df') = clean_weather_data(weather_df)
        /\ detect_extreme_events(weather_df') = detect_extreme_events(weather_df)
        /\ analyze_weather_traffic_correlation(weather_df', traffic_df').ret
            = analyze_weather_traffic_correlation(weather_df, traffic_df).ret
        /\ analyze_extreme_weather_impact(weather_df', traffic_df').ret
            = analyze_extreme_weather_impact(weather_df, traffic_df).ret]_vars

\* a value is a frame, not an exception
IsFrame(value) == DOMAIN value = {"cols", "rows"}

\* C18: whatever the shape of the series, each of the four operations ends
\* by returning a value: a frame, the six lists of events, or a mapping of
\* results; no exception leaves the call.
C18_NoExceptionPropagates ==
    /\ last = "clean" => IsFrame(cleaned_df)
    /\ last = "detect" => DOMAIN events = Categories
    /\ last = "correlate" =>
            DOMAIN correlations \subseteq {p[1] : p \in CorrelationPairs}
    /\ last = "impact" =>
            DOMAIN impact_analysis \subseteq {c[1] : c \in ImpactConditions}

\* the correlation of a weather series without the date field was asked
\* for, and the call returned the empty mapping
C18_Witness ==
    /\ last = "correlate"
    /\ Len(weather_df.rows) > 0
    /\ Len(traffic_df.rows) > 0
    /\ "date" \notin weather_df.cols
    /\ correlations = NoResult

----------------------------------------------------------------------------
(* Properties of the dashboard *)

WellFormed(date_string) == date_string.kind = "str"

Malformed(date_string) == date_string.kind = "bad"

\* C24: a pair of well-formed dates is accepted exactly when start <= end,
\* end <= today and end - start <= 1825 days; a malformed date string gives
\* a refusal with a message, not an exception.
C24_AcceptedExactlyWhenInRange ==
    last = "validate" =>
        /\ (WellFormed(start_date) /\ WellFormed(end_date)) =>
                /\ validation # Propagated
                /\ validation.is_valid <=>
                        /\ start_date.day <= end_date.day
                        /\ end_date.day <= now.day
                        /\ end_date.day - start_date.day <= 1825
        /\ (/\ WellFormed(start_date) \/ Malformed(start_date)
            /\ WellFormed(end_date) \/ Malformed(end_date)
            /\ Malformed(start_date) \/ Malformed(end_date)) =>
                /\ validation # Propagated
                /\ ~validation.is_valid
                /\ validation.error_msg # ""

\* a range of exactly 1825 days ending today was accepted
C24_Witness ==
    /\ last = "validate"
    /\ start_date = StrDate(Today - 1825)
    /\ end_date = StrDate(Today)
    /\ validation = Verdict(TRUE, "")

\* C30: after every load_data call the session has traffic_data set whenever
\* it has weather_data set, and weather_data, once set, stays set.
C30_WeatherSetImpliesTrafficSet ==
    [][/\ session_state'.weather_data # None =>
            session_state'.traffic_data # None
       /\ session_state.weather_data # None =>
            session_state'.weather_data # None]_vars

\* a real-time load whose every request failed left empty frames for both
\* series, and after it a load with a refused date range left them in place
C30_Witness ==
    /\ last = "load_data"
    /\ validation # Propagated
    /\ ~validation.is_valid
    /\ session_state.weather_data = NoFrame
    /\ session_state.traffic_data = NoFrame
    /\ session_state.current_weather = None

----------------------------------------------------------------------------
(* Properties of clean_weather_data *)

\* C11: clean_weather_data leaves the frame of the caller as it was, whether
\* the cleaning succeeds or fails.
C11_CleanLeavesArgument ==
    [][last' = "clean" => weather_df' = weather_df]_vars

\* a raw frame with string dates was cleaned into a different frame and is
\* still the raw frame
C11_Witness ==
    /\ last = "clean"
    /\ origin = "raw"
    /\ "date" \in weather_df.cols
    /\ "date" \in cleaned_df.cols
    /\ Len(weather_df.rows) >= 2
    /\ \A i \in 1..Len(weather_df.rows) : weather_df.rows[i]["date"].kind = "str"
    /\ Len(cleaned_df.rows) < Len(weather_df.rows)
    /\ \A i \in 1..Len(cleaned_df.rows) : cleaned_df.rows[i]["date"].kind = "ts"

Count(rows, r) == Cardinality({i \in 1..Len(rows) : rows[i] = r})

\* every record of a occurs at least as often in b
SubBag(a, b) == \A r \in Range(a) : Count(a, r) <= Count(b, r)

SameBag(a, b) == SubBag(a, b) /\ SubBag(b, a)

\* the date cells are comparable dates in ascending order
SortedByDate(df) ==
    "date" \in df.cols =>
        /\ \A i \in 1..Len(df.rows) : df.rows[i]["date"].kind \in {"str", "ts"}
        /\ SortedByDay(df.rows)

NoDuplicateDates(df) ==
    "date" \in df.cols =>
        \A i, j \in 1..Len(df.rows) :
            i # j => df.rows[i]["date"] # df.rows[j]["date"]

\* the frame without the records whose date does not parse
WithoutBadDates(df) ==
    LET ok(r) == to_datetime(r["date"]).kind # "raise"
    IN DataFrame(df.cols, SelectSeq(df.rows, ok))

HasBadDate(df) ==
    "date" \in df.cols /\ WithoutBadDates(df) # df

\* value v of a column lies outside the 1st to 99th percentile of the column
Outside(df, col, v) ==
    /\ ~IsNaN(v)
    /\ \/ 100 * v < Quantile100(Column(df, col), LowPct)
       \/ 100 * v > Quantile100(Column(df, col), HighPct)

\* the records of df that are inside the percentiles of df for every
\* temperature column of df
InsidePercentiles(df) ==
    LET inside(r) ==
            \A col \in df.cols \cap {"TMAX", "TMIN", "TAVG"} : ~Outside(df, col, r[col])
    IN SelectSeq(df.rows, inside)

\* the columns are the date and temperatures only and every date parses
OnlyTemperatures(df) ==
    /\ "date" \in df.cols
    /\ df.cols \subseteq {"date", "TMAX", "TMIN", "TAVG"}
    /\ \A i \in 1..Len(df.rows) : df.rows[i]["date"].kind \in {"str", "ts"}

\* C12: of a series of dated temperature records, clean returns exactly the
\* records that lie, for every temperature column, inside the 1st to 99th
\* percentile of that column over the series given to clean.
C12_TrimmedToOwnPercentiles ==
    (last = "clean" /\ origin = "raw" /\ OnlyTemperatures(weather_df)) =>
        SameBag(cleaned_df.rows, InsidePercentiles(ConvertDates(weather_df)))

\* C13: no record of the frame returned by clean has a negative
\* precipitation or a negative wind speed.
C13_NoNegativeReadings ==
    last = "clean" =>
        \A i \in 1..Len(cleaned_df.rows) :
            \A col \in cleaned_df.cols \cap {"PRCP", "AWND"} :
                ~LT(cleaned_df.rows[i][col], 0)

\* C3: the frame returned by clean is sorted ascending by date and holds at
\* most one record per date, whatever the input.
C3_SortedNoDuplicates ==
    last = "clean" => SortedByDate(cleaned_df) /\ NoDuplicateDates(cleaned_df)

\* C4 as stated: cleaning a cleaned series returns it unchanged: the second
\* pass removes no further records (whatever the order it leaves records of
\* the same date in).
C4_Idempotent ==
    (origin = "cleaned" /\ last = "clean") =>
        SameBag(cleaned_df.rows, weather_df.rows)

\* C4 as amended: a second cleaning pass only ever removes records, and it
\* keeps every record when the series has no temperature column; with a
\* temperature column the percentile trimming can remove further records.
C4_SecondPassKeepsSubset ==
    (origin = "cleaned" /\ last = "clean") =>
        /\ SubBag(cleaned_df.rows, weather_df.rows)
        /\ cleaned_df.cols = weather_df.cols
        /\ weather_df.cols \cap {"TMAX", "TMIN", "TAVG"} = {} =>
                SameBag(cleaned_df.rows, weather_df.rows)

\* a second pass over a cleaned series has removed a record
C4_Witness ==
    /\ origin = "cleaned"
    /\ last = "clean"
    /\ Len(cleaned_df.rows) < Len(weather_df.rows)

\* a second pass over a cleaned series without temperature columns
C4_WitnessNoTemp ==
    /\ origin = "cleaned"
    /\ last = "clean"
    /\ weather_df.cols = {"date", "PRCP"}
    /\ Len(weather_df.rows) = MaxTrimLen

\* a step of the cleaning raises: there is no date column, or a date cell is
\* a string that is no date
CleaningFails(df) ==
    /\ Len(df.rows) > 0
    /\ \/ "date" \notin df.cols
       \/ \E i \in 1..Len(df.rows) : df.rows[i]["date"] = BadDate

\* C26: when a step of the cleaning raises, clean returns the frame it was
\* given as it was: same records, same order, dates not converted.
C26_AllOrNothing ==
    [][(last' = "clean" /\ CleaningFails(weather_df)) =>
            cleaned_df' = weather_df]_vars

\* a series with a malformed date, a negative precipitation and dates out
\* of order came back as it was given
C26_Witness ==
    /\ last = "clean"
    /\ origin = "raw"
    /\ weather_df.cols = {"date", "PRCP", "AWND"}
    /\ Len(weather_df.rows) = 2
    /\ weather_df.rows[1]["date"] = StrDate(2)
    /\ weather_df.rows[1]["PRCP"] < 0
    /\ weather_df.rows[2]["date"] = BadDate
    /\ cleaned_df = weather_df

\* C27: when no step of the cleaning raises, no record of the frame returned
\* misses a value in a temperature, precipitation or wind speed column.
C27_NoMissingReadings ==
    (last = "clean" /\ ~CleaningFails(weather_df)) =>
        \A i \in 1..Len(cleaned_df.rows) :
            \A col \in cleaned_df.cols \cap {"TMAX", "TMIN", "TAVG", "PRCP", "AWND"} :
                ~IsNaN(cleaned_df.rows[i][col])

\* of two records, the one without a wind speed was dropped and the other
\* returned
C27_Witness ==
    /\ last = "clean"
    /\ origin = "raw"
    /\ weather_df.cols = {"date", "PRCP", "AWND"}
    /\ Len(weather_df.rows) = 2
    /\ IsNaN(weather_df.rows[1]["AWND"])
    /\ ~IsNaN(weather_df.rows[1]["PRCP"])
    /\ Len(cleaned_df.rows) = 1
    /\ cleaned_df.rows[1]["AWND"] = 5

\* C5: a record whose date does not parse is dropped and the remaining
\* records are still cleaned and returned.
C5_BadDateDropped ==
    (last = "clean" /\ origin = "raw" /\ "date" \in weather_df.cols) =>
        cleaned_df \in clean_weather_data(WithoutBadDates(weather_df))

====
